---- MODULE Spec2Model ----
(***************************************************************************)
(* Verification model of the Dolphin pool-cleaner protocol core:            *)
(*   - MQTTClient            (src/src/api/mqttClient.ts)                    *)
(*   - DolphinDevice         (src/src/devices/dolphinDevice.ts)             *)
(*   - AuthenticationManager (src/src/api/auth/types.ts)                    *)
(*   - CredentialManager     (src/src/api/auth/credentialManager.ts)        *)
(*   - MaytronicsAPI         (src/src/api/maytronicsApi.ts)                 *)
(*   - parseShadowState      (src/src/parsers/shadowStateParser.ts)         *)
(***************************************************************************)
EXTENDS Integers, Sequences, FiniteSets, TLC

(***************************************************************************)
(* Bounds of the model                                                      *)
(***************************************************************************)
\* number of getShadow/updateShadow calls issued on one MQTTClient
MaxCalls == 2
\* number of transport objects (mqtt.connect results) one MQTTClient creates
MaxTransports == 2
\* number of distinct streaming-credential generations
MaxCreds == 2
\* highest version the cloud shadow reaches
MaxVersion == 3
\* number of delayed refreshes pending at once
MaxDelayed == 1
\* number of login() runs
MaxLogins == 2
\* number of MaytronicsAPI calls in flight at once
MaxRequests == 1
\* number of refresh-buffer periods the clock advances
MaxTicks == 1
\* number of shadow documents parsed one after another
MaxParses == 1

(***************************************************************************)
(* Program constants                                                        *)
(***************************************************************************)
maxReconnectAttempts == 5

VARIABLES
  \* ---- MQTTClient fields ----
  connected,          \* this.connected
  client,             \* this.client: 0 = undefined, else a transport id
  credentials,        \* this.credentials
  reconnectAttempts,  \* this.reconnectAttempts
  listeners,          \* EventEmitter listener lists of the MQTTClient
  \* ---- MQTTClient environment ----
  transports,         \* the mqtt.js client objects created by connect()
  calls,              \* the promise closures of getShadow/updateShadow calls
  published,          \* what was published, in order
  rotation,           \* what the latest updateCredentials() call did
  \* ---- DolphinDevice fields ----
  state,              \* this.state, the canonical robot state
  lastShadowVersion,  \* this.lastShadowVersion, 0 = undefined
  pollingTimer,       \* this.pollingTimer is defined
  pollingInterval,    \* this.pollingInterval, in seconds
  \* ---- DolphinDevice environment ----
  intervals,          \* live setInterval timers created by start()
  delayed,            \* pending setTimeout(refreshState) callbacks
  refreshing,         \* origins of the refreshState() calls in flight
  command,            \* the command call in flight, if any
  cloud,              \* the thing shadow held by the cloud
  last,               \* what the latest controller step did and emitted
  notified,           \* a 'disconnect' was emitted since the last good refresh
  \* ---- AuthenticationManager / CredentialManager fields ----
  auth,               \* the stored tokens, credentials and IoT endpoint
  manager,            \* the AuthenticationManager: constructed, this.config
  \* ---- their environment ----
  logins,             \* the login() runs
  requests,           \* the MaytronicsAPI calls that publish to the shadow
  clock,              \* Date.now()
  mqttConnected,      \* this.mqttClient exists and isConnected()
  mqttSignedBy,       \* the login run whose credentials this.mqttClient got
  \* ---- parseShadowState(shadow, existingState) ----
  previous,           \* the argument existingState
  document,           \* the argument shadow
  parsed,             \* what the call returned, or that it threw
  parseCount,         \* number of calls made
  \* ---- protocol/commandBuilder.ts and MQTTClient.buildCommand ----
  built               \* the latest build call: builder, arguments, result

mqttVars == <<connected, client, credentials, reconnectAttempts, listeners,
              transports, calls, published, rotation>>

devVars == <<state, lastShadowVersion, pollingTimer, pollingInterval,
            intervals, delayed,
             refreshing, command, cloud, last, notified>>

authVars == <<auth, manager, logins, requests, clock, mqttConnected,
             mqttSignedBy>>

parseVars == <<previous, document, parsed, parseCount>>

codecVars == <<built>>

vars == <<mqttVars, devVars, authVars, parseVars, codecVars>>

\* what the actions of one component leave alone
otherThanMqtt == <<devVars, authVars, parseVars, codecVars>>
otherThanDevice == <<mqttVars, authVars, parseVars, codecVars>>
otherThanAuth == <<mqttVars, devVars, parseVars, codecVars>>
otherThanParse == <<mqttVars, devVars, authVars, codecVars>>
otherThanCodec == <<mqttVars, devVars, authVars, parseVars>>

(***************************************************************************)
(* MQTTClient                                                               *)
(***************************************************************************)
CallIds == 1..MaxCalls
TransportIds == 1..MaxTransports
Events == {"shadowUpdate", "shadowRejected"}
Topics == {"get/accepted", "get/rejected", "update/accepted",
           "update/rejected", "main"}

\* AWSCredentials of generation k
Cred(k) == [accessKeyId |-> k, secretAccessKey |-> k, sessionToken |-> k]
CredSet == {Cred(k) : k \in 1..MaxCreds}

\* getSignedWebSocketUrl: the credential scope carries the access key id, the
\* signature is keyed by the secret key over the canonical request (which
\* holds the access key id but not the session token); the session token is
\* appended after signing.
SignedUrl(c) ==
  [credential |-> c.accessKeyId,
   signature |-> <<"AWS4-HMAC-SHA256", c.secretAccessKey, c.accessKeyId>>,
   securityToken |-> c.sessionToken]

\* subs: the topics whose subscription the broker granted on the transport
NoTransport == [st |-> "unused", url |-> SignedUrl(Cred(1)), promise |-> "none",
                subs |-> {}]
\* by: what settled the call; answered: the broker's response to the request
\* the call published has been delivered
NoCall == [kind |-> "none", settled |-> FALSE, timer |-> FALSE,
           result |-> "none", base |-> <<0, 0>>, overlap |-> FALSE,
           by |-> "none", answered |-> FALSE]

\* listener owner 0 is the subscriber MaytronicsAPI registers; owner i > 0 is
\* the single-shot listener of call i
ApiListener == [owner |-> 0, once |-> FALSE]
CallListener(id) == [owner |-> id, once |-> TRUE]

\* EventEmitter.removeListener
RemoveListener(seq, l) == SelectSeq(seq, LAMBDA x : x # l)
\* EventEmitter.removeAllListeners(ev)
RemoveAllListeners(L, ev) == [L EXCEPT ![ev] = <<>>]

InFlight(C, id) == C[id].kind \in {"get", "update"} /\ C[id].result = "pending"

\* the 'shadowUpdate' single-shot handler of a call
OnShadowUpdate(id, L, C) ==
  IF C[id].settled THEN [l |-> L, c |-> C]
  ELSE [l |-> RemoveAllListeners(L, "shadowRejected"),
        c |-> [C EXCEPT ![id].settled = TRUE, ![id].timer = FALSE,
                        ![id].by = "shadowUpdate",
                        ![id].result = IF C[id].kind = "get"
                                       THEN "resolved" ELSE "true"]]

\* a 'shadowRejected' handler that rejects the promise of an update as well
OnShadowRejectedThrows(id, L, C) ==
  IF C[id].settled THEN [l |-> L, c |-> C]
  ELSE [l |-> RemoveAllListeners(L, "shadowUpdate"),
        c |-> [C EXCEPT ![id].settled = TRUE, ![id].timer = FALSE,
                        ![id].by = "shadowRejected",
                        ![id].result = "shadow-rejected"]]

\* the 'shadowRejected' single-shot handler of a call
OnShadowRejected(id, L, C) ==
  IF C[id].settled THEN [l |-> L, c |-> C]
  ELSE [l |-> RemoveAllListeners(L, "shadowUpdate"),
        c |-> [C EXCEPT ![id].settled = TRUE, ![id].timer = FALSE,
                        ![id].by = "shadowRejected",
                        ![id].result = IF C[id].kind = "get"
                                       THEN "shadow-rejected" ELSE "false"]]

\* the setTimeout handler of a call
OnTimeout(id, L, C) ==
  IF C[id].settled THEN [l |-> L, c |-> [C EXCEPT ![id].timer = FALSE]]
  ELSE [l |-> RemoveAllListeners(RemoveAllListeners(L, "shadowUpdate"),
                                 "shadowRejected"),
        c |-> [C EXCEPT ![id].settled = TRUE, ![id].timer = FALSE,
                        ![id].by = "timeout",
                        ![id].result = IF C[id].kind = "get"
                                       THEN "shadow-timeout" ELSE "false"]]

\* EventEmitter.emit: the listeners registered when emit starts are called in
\* order; a once-wrapper unregisters itself and then runs its handler
RECURSIVE EmitFrom(_, _, _, _)
EmitFrom(ev, snap, L, C) ==
  IF snap = <<>> THEN [l |-> L, c |-> C]
  ELSE LET h == Head(snap)
           L1 == IF h.once THEN [L EXCEPT ![ev] = RemoveListener(@, h)] ELSE L
           r == IF h.owner = 0 THEN [l |-> L1, c |-> C]
                ELSE IF ev = "shadowUpdate" THEN OnShadowUpdate(h.owner, L1, C)
                ELSE OnShadowRejected(h.owner, L1, C)
       IN EmitFrom(ev, Tail(snap), r.l, r.c)

Emit(ev, L, C) == EmitFrom(ev, L[ev], L, C)

InitMqtt ==
  /\ connected = FALSE
  /\ client = 0
  /\ credentials = Cred(1)
  /\ reconnectAttempts = 0
  /\ listeners = [ev \in Events |-> <<>>]
  /\ transports = [t \in TransportIds |-> NoTransport]
  /\ calls = [i \in CallIds |-> NoCall]
  /\ published = <<>>
  /\ rotation = "none"

\* MaytronicsAPI.initializeMQTTClient registers its 'shadowUpdate' subscriber
\* on the new MQTTClient before it connects
ApiSubscribe ==
  /\ client = 0 /\ ~connected
  /\ \A i \in CallIds : calls[i].kind = "none"
  /\ listeners["shadowUpdate"] = <<>>
  /\ listeners' = [listeners EXCEPT !["shadowUpdate"] = Append(@, ApiListener)]
  /\ UNCHANGED <<connected, client, credentials, reconnectAttempts,
                 transports, calls, published, rotation>>
  /\ UNCHANGED otherThanMqtt

\* the body of connect() once this.connected is false: mqtt.connect(signedUrl)
\* and the registration of the transport handlers
OpenTransport(T, creds) ==
  LET t == CHOOSE x \in TransportIds : T[x].st = "unused"
             /\ \A u \in TransportIds : T[u].st = "unused" => x <= u
  IN [T EXCEPT ![t] = [st |-> "connecting", url |-> SignedUrl(creds),
                        promise |-> "pending", subs |-> {}]]
NewTransportId(T) ==
  CHOOSE x \in TransportIds : T[x].st = "unused"
     /\ \A u \in TransportIds : T[u].st = "unused" => x <= u
HasUnused(T) == \E t \in TransportIds : T[t].st = "unused"

\* disconnect(): ends this.client, forgets it, clears this.connected
EndClient(T, c) ==
  IF c = 0 THEN T ELSE [T EXCEPT ![c].st = "ended", ![c].subs = {}]

\* connect()
Connect ==
  /\ HasUnused(transports)
  /\ IF connected
     THEN UNCHANGED <<client, transports>>
     ELSE /\ transports' = OpenTransport(transports, credentials)
          /\ client' = NewTransportId(transports)
  /\ UNCHANGED <<connected, credentials, reconnectAttempts, listeners, calls,
                 published, rotation>>
  /\ UNCHANGED otherThanMqtt

\* transport 'connect' event: this.connected = true, attempts reset, then the
\* handler awaits subscribeToTopics()
TransportConnect(t) ==
  /\ transports[t].st \in {"connecting", "reconnecting"}
  /\ connected' = TRUE
  /\ reconnectAttempts' = 0
  /\ transports' = [transports EXCEPT ![t].st = "subscribing"]
  /\ UNCHANGED <<client, credentials, listeners, calls, published, rotation>>
  /\ UNCHANGED otherThanMqtt

\* the sets of topics whose subscribe callback receives an error
FailureSets == {{}, {"get/accepted"}, Topics}

\* a subscribeToTopics() for which a failed subscription is fatal: the
\* connect() promise is rejected and the client disconnected
SubscribeDoneStrict(t, failed) ==
  /\ transports[t].st = "subscribing"
  /\ IF failed = {}
     THEN /\ LET T == [transports EXCEPT
                       ![t].st = "online",
                       ![t].promise = IF @ = "pending" THEN "resolved" ELSE @]
             IN transports' = IF client = 0 THEN T
                              ELSE [T EXCEPT ![client].subs = Topics]
          /\ UNCHANGED <<connected, client>>
     ELSE /\ transports' = EndClient(
                 [transports EXCEPT
                    ![t].st = "online",
                    ![t].promise = IF @ = "pending" THEN "rejected" ELSE @],
                 client)
          /\ client' = 0
          /\ connected' = FALSE
  /\ UNCHANGED <<credentials, reconnectAttempts, listeners, calls, published,
                 rotation>>
  /\ UNCHANGED otherThanMqtt

\* subscribeToTopics() has completed: this.client.subscribe was called for
\* every topic (none if this.client is undefined) and every callback has
\* returned, with an error for the topics in failed; then emit('connected')
\* and resolve the connect() promise
SubscribeDone(t, failed) ==
  /\ transports[t].st = "subscribing"
  /\ LET T == [transports EXCEPT
                ![t].st = "online",
                ![t].promise = IF @ = "pending" THEN "resolved" ELSE @]
     IN transports' = IF client = 0 THEN T
                      ELSE [T EXCEPT ![client].subs = @ \cup (Topics \ failed)]
  /\ UNCHANGED <<connected, client, credentials, reconnectAttempts, listeners,
                 calls, published, rotation>>
  /\ UNCHANGED otherThanMqtt

\* disconnect()
Disconnect ==
  /\ transports' = EndClient(transports, client)
  /\ client' = 0
  /\ connected' = FALSE
  /\ UNCHANGED <<credentials, reconnectAttempts, listeners, calls, published,
                 rotation>>
  /\ UNCHANGED otherThanMqtt

\* a getShadow() / updateShadow(desired) without the connection check
ShadowCallUnguarded(id, kind) ==
  /\ calls[id].kind = "none"
  /\ \A j \in CallIds : j < id => calls[j].kind # "none"
  /\ calls' = [j \in CallIds |->
        IF j = id
        THEN [kind |-> kind, settled |-> FALSE, timer |-> TRUE,
              result |-> "pending",
              base |-> <<Len(listeners["shadowUpdate"]),
                         Len(listeners["shadowRejected"])>>,
              overlap |-> \E k \in CallIds : InFlight(calls, k),
              by |-> "none", answered |-> FALSE]
        ELSE IF InFlight(calls, j)
             THEN [calls[j] EXCEPT !.overlap = TRUE]
             ELSE calls[j]]
  /\ listeners' = [ev \in Events |-> Append(listeners[ev], CallListener(id))]
  /\ published' = Append(published, kind)
  /\ UNCHANGED <<connected, client, credentials, reconnectAttempts, transports,
                 rotation>>
  /\ UNCHANGED otherThanMqtt

\* getShadow() / updateShadow(desired)
ShadowCall(id, kind) ==
  /\ calls[id].kind = "none"
  /\ \A j \in CallIds : j < id => calls[j].kind # "none"
  /\ IF ~connected \/ client = 0
     THEN /\ calls' = [calls EXCEPT ![id] =
                 [NoCall EXCEPT !.kind = kind, !.settled = TRUE,
                                !.result = "not-connected",
                                !.base = <<Len(listeners["shadowUpdate"]),
                                           Len(listeners["shadowRejected"])>>]]
          /\ UNCHANGED <<listeners, published>>
     ELSE /\ calls' = [j \in CallIds |->
                 IF j = id
                 THEN [kind |-> kind, settled |-> FALSE, timer |-> TRUE,
                       result |-> "pending",
                       base |-> <<Len(listeners["shadowUpdate"]),
                                  Len(listeners["shadowRejected"])>>,
                       overlap |-> \E k \in CallIds : InFlight(calls, k),
                       by |-> "none", answered |-> FALSE]
                 ELSE IF InFlight(calls, j)
                      THEN [calls[j] EXCEPT !.overlap = TRUE]
                      ELSE calls[j]]
          /\ listeners' = [ev \in Events |->
                             Append(listeners[ev], CallListener(id))]
          /\ published' = Append(published, kind)
  /\ UNCHANGED <<connected, client, credentials, reconnectAttempts, transports,
                 rotation>>
  /\ UNCHANGED otherThanMqtt

getShadow(id) == ShadowCall(id, "get")
updateShadow(id) == ShadowCall(id, "update")

\* the 10 s timer of a call fires
Timeout(id) ==
  /\ calls[id].timer
  /\ LET r == OnTimeout(id, listeners, calls)
     IN /\ listeners' = r.l
        /\ calls' = r.c
  /\ UNCHANGED <<connected, client, credentials, reconnectAttempts, transports,
                 published, rotation>>
  /\ UNCHANGED otherThanMqtt

\* the message on topic is the broker's response to the request call re
\* published and has not been delivered yet; re = 0 is a message that answers
\* no request of this client (the topics are shared by every client of the
\* thing)
Answers(topic, re) ==
  \/ re = 0
  \/ /\ re \in CallIds
     /\ calls[re].kind \in {"get", "update"}
     /\ calls[re].result # "not-connected"
     /\ ~calls[re].answered
     /\ topic \in (IF calls[re].kind = "get"
                   THEN {"get/accepted", "get/rejected"}
                   ELSE {"update/accepted", "update/rejected"})

\* a live transport delivers on the topic: its subscription was granted, or
\* the subscriptions are being made
Delivers(topic) ==
  \E t \in TransportIds :
    \/ transports[t].st = "subscribing"
    \/ transports[t].st = "online" /\ topic \in transports[t].subs

\* handleMessage(topic, payload) for a message a live transport delivers
handleMessage(topic, parses, re) ==
  /\ Delivers(topic)
  /\ Answers(topic, re)
  /\ LET ev == IF topic \in {"get/accepted", "update/accepted"}
               THEN "shadowUpdate"
               ELSE IF topic \in {"get/rejected", "update/rejected"}
               THEN "shadowRejected" ELSE "dynamicMessage"
         r == IF parses /\ ev \in Events
              THEN Emit(ev, listeners, calls)
              ELSE [l |-> listeners, c |-> calls]
     IN /\ listeners' = r.l
        /\ calls' = IF re = 0 THEN r.c
                    ELSE [r.c EXCEPT ![re].answered = TRUE]
  /\ UNCHANGED <<connected, client, credentials, reconnectAttempts, transports,
                 published, rotation>>
  /\ UNCHANGED otherThanMqtt

\* transport 'error' event: reject the connect() promise while not connected
TransportError(t) ==
  /\ transports[t].st \in {"connecting", "reconnecting", "subscribing",
                           "online", "closed"}
  /\ transports' = [transports EXCEPT
       ![t].promise = IF ~connected /\ @ = "pending" THEN "rejected" ELSE @]
  /\ UNCHANGED <<connected, client, credentials, reconnectAttempts, listeners,
                 calls, published, rotation>>
  /\ UNCHANGED otherThanMqtt

\* transport 'close' event: this.connected = false, emit('disconnected'); an
\* ended transport closes once and is then dead; the session is clean, so
\* the broker has dropped the subscriptions
TransportClose(t) ==
  /\ transports[t].st \in {"connecting", "reconnecting", "subscribing",
                           "online", "ended"}
  /\ connected' = FALSE
  /\ transports' = [transports EXCEPT
       ![t].st = IF @ = "ended" THEN "dead" ELSE "closed",
       ![t].subs = {}]
  /\ UNCHANGED <<client, credentials, reconnectAttempts, listeners, calls,
                 published, rotation>>
  /\ UNCHANGED otherThanMqtt

\* transport 'offline' event
TransportOffline(t) ==
  /\ transports[t].st = "closed"
  /\ connected' = FALSE
  /\ UNCHANGED <<client, credentials, reconnectAttempts, listeners, transports,
                 calls, published, rotation>>
  /\ UNCHANGED otherThanMqtt

\* a 'reconnect' handler that counts the attempt and never gives up
TransportReconnectForever(t) ==
  /\ transports[t].st = "closed"
  /\ reconnectAttempts <= maxReconnectAttempts   \* cap of the counter
  /\ reconnectAttempts' = reconnectAttempts + 1
  /\ transports' = [transports EXCEPT ![t].st = "reconnecting"]
  /\ UNCHANGED <<client, connected, credentials, listeners, calls, published,
                 rotation>>
  /\ UNCHANGED otherThanMqtt

\* transport 'reconnect' event: count the attempt, give up past the maximum
TransportReconnect(t) ==
  /\ transports[t].st = "closed"
  /\ reconnectAttempts <= maxReconnectAttempts   \* cap of the counter
  /\ reconnectAttempts' = reconnectAttempts + 1
  /\ LET T == [transports EXCEPT ![t].st = "reconnecting"]
     IN IF reconnectAttempts + 1 > maxReconnectAttempts
        THEN /\ transports' = EndClient(T, client)
             /\ client' = 0
             /\ connected' = FALSE
        ELSE /\ transports' = T
             /\ UNCHANGED <<client, connected>>
  /\ UNCHANGED <<credentials, listeners, calls, published, rotation>>
  /\ UNCHANGED otherThanMqtt

\* updateCredentials that reconnects before it stores the new credentials
updateCredentialsStale(c) ==
  /\ connected => HasUnused(transports)
  /\ c.accessKeyId = credentials.accessKeyId + 1   \* each rotation is new
  /\ credentials' = c
  /\ IF connected
     THEN LET T == EndClient(transports, client)
          IN /\ transports' = OpenTransport(T, credentials)
             /\ client' = NewTransportId(T)
             /\ connected' = FALSE
             /\ rotation' = "reconnected"
     ELSE /\ UNCHANGED <<transports, client, connected>>
          /\ rotation' = "stored"
  /\ UNCHANGED <<reconnectAttempts, listeners, calls, published>>
  /\ UNCHANGED otherThanMqtt

\* updateCredentials(credentials): store them; if connected, disconnect() and
\* connect() again
updateCredentials(c) ==
  /\ connected => HasUnused(transports)
  /\ c.accessKeyId = credentials.accessKeyId + 1   \* each rotation is new
  /\ credentials' = c
  /\ IF connected
     THEN LET T == EndClient(transports, client)
          IN /\ transports' = OpenTransport(T, c)
             /\ client' = NewTransportId(T)
             /\ connected' = FALSE
             /\ rotation' = "reconnected"
     ELSE /\ UNCHANGED <<transports, client, connected>>
          /\ rotation' = "stored"
  /\ UNCHANGED <<reconnectAttempts, listeners, calls, published>>
  /\ UNCHANGED otherThanMqtt

NextConn ==
  \/ Connect
  \/ \E t \in TransportIds : TransportConnect(t)
  \/ \E t \in TransportIds : SubscribeDone(t, {})
  \/ Disconnect
  \/ \E t \in TransportIds : TransportError(t)
  \/ \E t \in TransportIds : TransportClose(t)
  \/ \E t \in TransportIds : TransportOffline(t)
  \/ \E t \in TransportIds : TransportReconnect(t)
  \/ \E c \in CredSet : updateCredentials(c)

NextShadow ==
  \/ ApiSubscribe
  \/ Connect
  \/ \E t \in TransportIds : TransportConnect(t)
  \/ \E t \in TransportIds : SubscribeDone(t, {})
  \/ Disconnect
  \/ \E id \in CallIds : getShadow(id)
  \/ \E id \in CallIds : updateShadow(id)
  \/ \E id \in CallIds : Timeout(id)
  \/ \E topic \in Topics, parses \in BOOLEAN, re \in {0} \cup CallIds :
       handleMessage(topic, parses, re)

\* shadow requests on a client before and after it connects
NextRequest ==
  \/ Connect
  \/ \E t \in TransportIds : TransportConnect(t)
  \/ \E t \in TransportIds : SubscribeDone(t, {})
  \/ \E id \in CallIds : getShadow(id)
  \/ \E id \in CallIds : updateShadow(id)
  \/ \E id \in CallIds : Timeout(id)
  \/ \E topic \in Topics, parses \in BOOLEAN, re \in {0} \cup CallIds :
       handleMessage(topic, parses, re)

\* the connection life cycle with subscriptions that may fail
NextLifecycle ==
  \/ Connect
  \/ \E t \in TransportIds : TransportConnect(t)
  \/ \E t \in TransportIds, failed \in FailureSets : SubscribeDone(t, failed)
  \/ Disconnect
  \/ \E t \in TransportIds : TransportError(t)
  \/ \E t \in TransportIds : TransportClose(t)
  \/ \E t \in TransportIds : TransportOffline(t)
  \/ \E t \in TransportIds : TransportReconnect(t)

(***************************************************************************)
(* Shadow state parser (parsers/)                                           *)
(*                                                                          *)
(* A JavaScript object is a function from its present keys to their values; *)
(* an absent key is undefined.  NonString stands for a truthy value that is *)
(* not a string (a number, say) in a place where the parser expects one.    *)
(***************************************************************************)
NonString == "#not-a-string"
Has(o, k) == k \in DOMAIN o
Set(o, k, v) == [y \in DOMAIN o \cup {k} |-> IF y = k THEN v ELSE o[y]]
Del(o, k) == [y \in DOMAIN o \ {k} |-> o[y]]
Max(a, b) == IF a >= b THEN a ELSE b

\* String.prototype.toLowerCase on the vocabulary of the payloads
toLowerCase(str) ==
  CASE str = "holdWeekly" -> "holdweekly"
    [] str = "holdDelay" -> "holddelay"
    [] str = "notConnected" -> "notconnected"
    [] str = "Cleaning" -> "cleaning"
    [] str = "Floor" -> "floor"
    [] OTHER -> str

\* config/constants
ROBOT_STATES == [OFF |-> 0, INIT |-> 1, SCANNING |-> 2, CLEANING |-> 3,
                 FAULT |-> 4, PROGRAMMING |-> 5, END_OF_CYCLE |-> 6,
                 PICKUP |-> 7, REMOTE_CONTROL |-> 8, CLEANING_PAUSE |-> 11]
PWS_STATES == [OFF |-> 0, HOLD_DELAY |-> 1, HOLD_WEEKLY |-> 2,
               PROGRAMMING |-> 3, ERROR |-> 4, CLEANING |-> 5, IDLE |-> 6]
CLEANING_MODES == {"all", "short", "floor", "wall", "water", "ultra", "cove",
                   "spot", "tictac", "pickup", "custom", "stairs"}
DEFAULT_CYCLE_TIME_MINUTES == 120
MIN_VALID_UNIX_TIMESTAMP == 1000000000
SECONDS_PER_MINUTE == 60
FILTER_NEEDS_CLEANING_THRESHOLD == 80
ERROR_CODE_NOT_APPLICABLE == 65535
ERROR_CODE_NO_ERROR == 255

CLEANING_ROBOT_STATES == {"scanning", "cleaning", "running", "active"}
FINISHED_ROBOT_STATES == {"finished", "idle", "off", "notconnected"}
IDLE_PWS_STATES == {"off", "idle", "holdweekly", "holddelay", "programming",
                    "error"}
MODE_STRING_MAP ==
  [standard |-> "all", regular |-> "all", all |-> "all", fast |-> "short",
   short |-> "short", floor |-> "floor", floor_only |-> "floor",
   wall |-> "wall", walls |-> "wall", waterline |-> "water",
   water |-> "water", ultra |-> "ultra", ultra_clean |-> "ultra"]
PWS_STATE_MAP ==
  [off |-> PWS_STATES.OFF, idle |-> PWS_STATES.IDLE,
   holdweekly |-> PWS_STATES.IDLE, holddelay |-> PWS_STATES.IDLE,
   programming |-> PWS_STATES.PROGRAMMING, cleaning |-> PWS_STATES.CLEANING,
   error |-> PWS_STATES.ERROR]
NUMERIC_MODE_MAP ==
  <<"short", "floor", "wall", "water", "ultra", "cove", "spot", "tictac",
    "pickup", "custom", "stairs">>
CLEANING_MU_STATES == {ROBOT_STATES.SCANNING, ROBOT_STATES.CLEANING,
                       ROBOT_STATES.CLEANING_PAUSE}
FAULT_DESCRIPTIONS ==
  <<"Motor fault", "Robot out of water", "Communication error",
    "Filter blocked", "Impeller blocked", "Overheating">>
NO_ERROR_CODES == {0, ERROR_CODE_NO_ERROR, ERROR_CODE_NOT_APPLICABLE}

createDefaultState ==
  [connected |-> FALSE, muState |-> ROBOT_STATES.OFF,
   pwsState |-> PWS_STATES.OFF, isCleaning |-> FALSE, cleaningMode |-> "all",
   cycleTime |-> DEFAULT_CYCLE_TIME_MINUTES, cycleTimeRemaining |-> 0,
   filterStatus |-> "ok"]

\* MODE_STRING_MAP[modeStr] || modeStr
MapMode(modeStr) ==
  IF modeStr \in DOMAIN MODE_STRING_MAP THEN MODE_STRING_MAP[modeStr]
  ELSE modeStr

\* parseCleaningMode of the legacy cleaning_mode, a string [str |-> s] or a
\* number [num |-> n]
parseCleaningMode(mode) ==
  IF Has(mode, "str") THEN MapMode(toLowerCase(mode.str))
  ELSE IF mode.num \in DOMAIN NUMERIC_MODE_MAP THEN NUMERIC_MODE_MAP[mode.num]
  ELSE "all"

isCleaningMuState(muState) == muState \in CLEANING_MU_STATES

\* ---- filterStatusParser ----
\* parseFilterStatus for which the threshold itself needs cleaning
parseFilterStatusInclusive(reported) ==
  IF ~Has(reported, "filterBagIndication") /\ ~Has(reported, "filterIndicator")
  THEN "ok"
  ELSE LET filterData == IF Has(reported, "filterBagIndication")
                         THEN reported.filterBagIndication
                         ELSE reported.filterIndicator
           stateStr == IF Has(filterData, "filterState")
                       THEN toLowerCase(filterData.filterState) ELSE ""
       IN IF Has(filterData, "state")
          THEN IF filterData.state >= FILTER_NEEDS_CLEANING_THRESHOLD
               THEN "needs_cleaning" ELSE "ok"
          ELSE IF stateStr \in {"clean", "ok"} THEN "ok"
          ELSE IF stateStr \in {"dirty", "needs_cleaning", "full"}
          THEN "needs_cleaning"
          ELSE IF Has(filterData, "filterLevel")
          THEN IF filterData.filterLevel > 0 THEN "needs_cleaning" ELSE "ok"
          ELSE "ok"

\* parseFilterStatus(reported.filterBagIndication, reported.filterIndicator)
parseFilterStatus(reported) ==
  IF ~Has(reported, "filterBagIndication") /\ ~Has(reported, "filterIndicator")
  THEN "ok"
  ELSE LET filterData == IF Has(reported, "filterBagIndication")
                         THEN reported.filterBagIndication
                         ELSE reported.filterIndicator
           stateStr == IF Has(filterData, "filterState")
                       THEN toLowerCase(filterData.filterState) ELSE ""
       IN IF Has(filterData, "state")
          THEN IF filterData.state > FILTER_NEEDS_CLEANING_THRESHOLD
               THEN "needs_cleaning" ELSE "ok"
          ELSE IF stateStr \in {"clean", "ok"} THEN "ok"
          ELSE IF stateStr \in {"dirty", "needs_cleaning", "full"}
          THEN "needs_cleaning"
          ELSE IF Has(filterData, "filterLevel")
          THEN IF filterData.filterLevel > 0 THEN "needs_cleaning" ELSE "ok"
          ELSE "ok"

parseLegacyFilterStatus(filterState) ==
  IF filterState > 0 THEN "needs_cleaning" ELSE "ok"

\* ---- faultCodeParser ----
NoFault == [isActive |-> FALSE]
getFaultDescription(code) ==
  IF code \in DOMAIN FAULT_DESCRIPTIONS THEN FAULT_DESCRIPTIONS[code]
  ELSE "Unknown fault"

\* isRealErrorCode of the errorCode/faultCode field of an object
isRealErrorCode(o, field) == Has(o, field) /\ o[field] \notin NO_ERROR_CODES

\* isCurrentSessionError(error.turnOnCount, systemState.rTurnOnCount)
isCurrentSessionError(err, reported) ==
  IF ~(Has(reported, "systemState")
       /\ Has(reported.systemState, "rTurnOnCount"))
     \/ ~Has(err, "turnOnCount")
  THEN TRUE
  ELSE IF err.turnOnCount = ERROR_CODE_NOT_APPLICABLE THEN TRUE
  ELSE err.turnOnCount >= reported.systemState.rTurnOnCount

Fault(code) ==
  [isActive |-> TRUE, code |-> code, description |-> getFaultDescription(code)]

parseRobotError(reported) ==
  IF ~Has(reported, "robotError") THEN NoFault
  ELSE IF ~isRealErrorCode(reported.robotError, "errorCode") THEN NoFault
  ELSE LET isPwsError == Has(reported, "systemState")
                           /\ Has(reported.systemState, "pwsState")
                           /\ reported.systemState.pwsState = "error"
       IN IF isCurrentSessionError(reported.robotError, reported) \/ isPwsError
          THEN Fault(reported.robotError.errorCode)
          ELSE NoFault

parsePwsError(reported) ==
  IF ~Has(reported, "pwsError") THEN NoFault
  ELSE IF ~isRealErrorCode(reported.pwsError, "errorCode") THEN NoFault
  ELSE IF isCurrentSessionError(reported.pwsError, reported)
  THEN Fault(reported.pwsError.errorCode)
  ELSE NoFault

parseLegacyFaultCodes(faultCodes) ==
  IF ~isRealErrorCode(faultCodes, "faultCode") THEN NoFault
  ELSE [isActive |-> TRUE, code |-> faultCodes.faultCode,
        description |-> IF Has(faultCodes, "faultDescription")
                        THEN faultCodes.faultDescription
                        ELSE getFaultDescription(faultCodes.faultCode)]

parseAllFaults(reported) ==
  IF parseRobotError(reported).isActive THEN parseRobotError(reported)
  ELSE IF parsePwsError(reported).isActive THEN parsePwsError(reported)
  ELSE IF Has(reported, "faultCodes")
  THEN parseLegacyFaultCodes(reported.faultCodes)
  ELSE NoFault

\* A hex string is the sequence of its characters' digit values; a character
\* that is no hex digit has the value 16.  parseInt(str.substring(0, n), 16)
\* reads the leading hex digits and is NaN (here -1) when there is none.
RECURSIVE HexValue(_, _)
HexValue(digits, acc) ==
  IF digits = <<>> \/ Head(digits) >= 16 THEN acc
  ELSE HexValue(Tail(digits), 16 * acc + Head(digits))
NaN == -1
parseIntHex(str, n) ==
  LET sub == SubSeq(str, 1, IF Len(str) < n THEN Len(str) ELSE n)
  IN IF sub = <<>> \/ Head(sub) >= 16 THEN NaN ELSE HexValue(sub, 0)

parseFaultsHexString(faults) ==
  IF faults = <<>> THEN NoFault
  ELSE LET faultValue == parseIntHex(faults, 2)
       IN IF faultValue > 0 THEN Fault(faultValue) ELSE NoFault

\* ---- shadowStateParser ----
\* what a .toLowerCase() call of parseNewFormat is applied to, when reached
LowerCased(reported) ==
  (IF Has(reported, "systemState")
   THEN {reported.systemState[k] :
           k \in DOMAIN reported.systemState \cap {"pwsState", "robotState"}}
   ELSE {})
  \cup (IF Has(reported, "robotState") /\ Has(reported.robotState, "pwsState")
        THEN {reported.robotState.pwsState} ELSE {})
  \cup (IF Has(reported, "cycleInfo") /\ Has(reported.cycleInfo, "cycleState")
        THEN {reported.cycleInfo.cycleState} ELSE {})
  \cup (IF Has(reported, "cycleInfo") /\ Has(reported.cycleInfo, "cleaningMode")
           /\ Has(reported.cycleInfo.cleaningMode, "mode")
        THEN {reported.cycleInfo.cleaningMode.mode} ELSE {})
  \cup (IF Has(reported, "filterBagIndication")
        THEN (IF Has(reported.filterBagIndication, "state")
                 \/ ~Has(reported.filterBagIndication, "filterState")
              THEN {} ELSE {reported.filterBagIndication.filterState})
        ELSE IF Has(reported, "filterIndicator")
        THEN (IF Has(reported.filterIndicator, "state")
                 \/ ~Has(reported.filterIndicator, "filterState")
              THEN {} ELSE {reported.filterIndicator.filterState})
        ELSE {})

\* parseNewFormat throws a TypeError when it calls toLowerCase on a value that
\* is not a string
ParseThrows(reported) == NonString \in LowerCased(reported)

\* "Parse system state" of parseNewFormat
ParseSystemState(reported, st) ==
  IF ~Has(reported, "systemState") THEN st
  ELSE LET sys == reported.systemState
           hasPws == Has(sys, "pwsState") /\ sys.pwsState # ""
           sysPwsState == IF hasPws THEN toLowerCase(sys.pwsState) ELSE ""
           s1 == IF hasPws /\ sysPwsState \in IDLE_PWS_STATES
                 THEN Set(st, "isCleaning", FALSE)
                 ELSE IF sysPwsState = "cleaning"
                 THEN Set(st, "isCleaning", TRUE)
                 ELSE st
           hasRobot == Has(sys, "robotState") /\ sys.robotState # ""
           robotStateStr == IF hasRobot THEN toLowerCase(sys.robotState) ELSE ""
           s2 == IF hasRobot /\ robotStateStr \in CLEANING_ROBOT_STATES
                 THEN Set(s1, "isCleaning", TRUE)
                 ELSE IF hasRobot /\ robotStateStr \in FINISHED_ROBOT_STATES
                 THEN Set(s1, "isCleaning", FALSE)
                 ELSE s1
       IN IF hasPws /\ sysPwsState \in DOMAIN PWS_STATE_MAP
          THEN Set(s2, "pwsState", PWS_STATE_MAP[sysPwsState])
          ELSE s2

\* "Parse robot state (alternative format)" of parseNewFormat
ParseRobotState(reported, st) ==
  IF ~Has(reported, "robotState") THEN st
  ELSE LET rs == reported.robotState
           robotIsOn == Has(rs, "isOn") /\ rs.isOn = TRUE
           hasPws == Has(rs, "pwsState") /\ rs.pwsState # ""
           robotPwsState == IF hasPws THEN toLowerCase(rs.pwsState) ELSE ""
           s1 == IF robotPwsState \in {"cleaning", "running"}
                 THEN Set(st, "isCleaning", TRUE)
                 ELSE IF ~Has(st, "isCleaning")
                 THEN Set(st, "isCleaning", robotIsOn)
                 ELSE st
       IN IF hasPws /\ robotPwsState \in DOMAIN PWS_STATE_MAP
          THEN Set(s1, "pwsState", PWS_STATE_MAP[robotPwsState])
          ELSE s1

\* "Parse cycle info" of parseNewFormat; now is Date.now() in seconds.  Times
\* are taken at whole minutes, so the division by SECONDS_PER_MINUTE is exact.
ParseCycleInfo(reported, st, now) ==
  IF ~Has(reported, "cycleInfo") THEN st
  ELSE LET ci == reported.cycleInfo
           cycleStartTime ==
             IF Has(ci, "cycleStartTimeUTC") /\ ci.cycleStartTimeUTC # 0
             THEN ci.cycleStartTimeUTC
             ELSE IF Has(ci, "cycleStartTime") THEN ci.cycleStartTime ELSE 0
           cm == IF Has(ci, "cleaningMode") THEN ci.cleaningMode ELSE <<>>
           cycleTime == IF Has(cm, "cycleTime") /\ cm.cycleTime # 0
                        THEN cm.cycleTime ELSE DEFAULT_CYCLE_TIME_MINUTES
           elapsedMinutes == (now - cycleStartTime) \div SECONDS_PER_MINUTE
           s1 == IF cycleStartTime # 0
                    /\ cycleStartTime > MIN_VALID_UNIX_TIMESTAMP
                    /\ elapsedMinutes >= 0 /\ elapsedMinutes < cycleTime
                 THEN Set(Set(Set(st, "isCleaning", TRUE),
                              "cycleStartTime", cycleStartTime),
                          "cycleTimeRemaining",
                          Max(0, cycleTime - elapsedMinutes))
                 ELSE st
           hasCs == Has(ci, "cycleState") /\ ci.cycleState # ""
           cycleState == IF hasCs THEN toLowerCase(ci.cycleState) ELSE ""
           s2 == IF hasCs /\ cycleState # "idle"
                 THEN Set(s1, "isCleaning", cycleState \in CLEANING_ROBOT_STATES)
                 ELSE s1
           hasMode == Has(cm, "mode") /\ cm.mode # ""
           s3 == IF hasMode
                 THEN Set(s2, "cleaningMode", MapMode(toLowerCase(cm.mode)))
                 ELSE s2
           s4 == IF Has(cm, "cycleTime") /\ cm.cycleTime # 0
                 THEN Set(s3, "cycleTime", cm.cycleTime)
                 ELSE s3
       IN IF Has(ci, "cycleTimeRemaining")
          THEN LET remaining == ci.cycleTimeRemaining
               IN Set(s4, "cycleTimeRemaining",
                      (IF Has(remaining, "hours") THEN remaining.hours ELSE 0)
                        * SECONDS_PER_MINUTE
                      + (IF Has(remaining, "minutes") THEN remaining.minutes
                         ELSE 0))
          ELSE s4

\* copy o[from] to st[to] when o has it (an undefined value is never merged)
Copy(st, to, o, from) == IF Has(o, from) THEN Set(st, to, o[from]) ELSE st

\* the rest of parseNewFormat: temperature, filter, faults, LED, timers
ParseFeatures(reported, st) ==
  LET s1 == IF Has(reported, "inwatTemperature")
            THEN Copy(st, "temperature", reported.inwatTemperature,
                      "temperature")
            ELSE st
      s2 == Set(s1, "filterStatus", parseFilterStatus(reported))
      fault == parseAllFaults(reported)
      s3 == IF fault.isActive
            THEN Set(Set(s2, "faultCode", fault.code),
                     "faultDescription", fault.description)
            ELSE s2
      s4 == IF Has(reported, "led")
            THEN Copy(Copy(s3, "ledEnabled", reported.led, "ledEnable"),
                      "ledIntensity", reported.led, "ledIntensity")
            ELSE s3
      s5 == IF Has(reported, "weeklyTimer")
            THEN Copy(s4, "weeklyEnabled", reported.weeklyTimer, "enabled")
            ELSE s4
  IN IF Has(reported, "delayedOperation")
     THEN LET d == reported.delayedOperation
              s6 == Copy(s5, "delayEnabled", d, "enabled")
          IN IF Has(d, "time")
             THEN Set(s6, "delayTime",
                      (IF Has(d.time, "hours") THEN d.time.hours ELSE 0)
                        * SECONDS_PER_MINUTE
                      + (IF Has(d.time, "minutes") THEN d.time.minutes ELSE 0))
             ELSE s6
     ELSE s5

parseNewFormat(reported, now) ==
  LET s0 == IF Has(reported, "isConnected")
            THEN Set(<<>>, "connected",
                     Has(reported.isConnected, "connected")
                       /\ reported.isConnected.connected = TRUE)
            ELSE <<>>
  IN ParseFeatures(reported,
       ParseCycleInfo(reported,
         ParseRobotState(reported, ParseSystemState(reported, s0)), now))

parseLegacyFormat(reported) ==
  LET s1 == IF Has(reported, "mu_state")
            THEN Set(Set(<<>>, "muState", reported.mu_state),
                     "isCleaning", isCleaningMuState(reported.mu_state))
            ELSE <<>>
      s2 == Copy(s1, "pwsState", reported, "sm_state")
      s3 == IF Has(reported, "cleaning_mode")
            THEN Set(s2, "cleaningMode",
                     parseCleaningMode(reported.cleaning_mode))
            ELSE s2
      s4 == IF Has(reported, "filter_state")
            THEN Set(s3, "filterStatus",
                     parseLegacyFilterStatus(reported.filter_state))
            ELSE s3
      \* tenths of a degree; payloads carry whole degrees times ten
      s5 == IF Has(reported, "temperature")
            THEN Set(s4, "temperature", reported.temperature \div 10)
            ELSE s4
      s6 == Copy(s5, "isSmartMode", reported, "is_smart")
      elapsed == IF Has(reported, "cycle_info")
                 THEN parseIntHex(reported.cycle_info, 4) ELSE NaN
      \* state.cycleTime is never set by parseLegacyFormat: the default is used
      s7 == IF Has(reported, "cycle_info") /\ Len(reported.cycle_info) >= 4
               /\ elapsed # NaN
            THEN Set(s6, "cycleTimeRemaining",
                     Max(0, DEFAULT_CYCLE_TIME_MINUTES - elapsed))
            ELSE s6
      fault == IF Has(reported, "faults")
               THEN parseFaultsHexString(reported.faults) ELSE NoFault
  IN IF fault.isActive
     THEN Set(Set(s7, "faultCode", fault.code),
              "faultDescription", fault.description)
     ELSE s7

\* mergeState: every key of updates overrides, every other key is kept
mergeState(existing, updates) ==
  [k \in DOMAIN existing \cup DOMAIN updates |->
     IF k \in DOMAIN updates THEN updates[k] ELSE existing[k]]

\* parseShadowState(shadow, existingState) for a shadow object
parseShadowState(shadow, existingState, now) ==
  IF ~Has(shadow, "state") \/ ~Has(shadow.state, "reported")
  THEN existingState
  ELSE mergeState(mergeState(existingState,
                             parseNewFormat(shadow.state.reported, now)),
                  parseLegacyFormat(shadow.state.reported))

\* getShadowVersion; 0 stands for undefined
UndefinedVersion == 0
getShadowVersion(shadow) ==
  IF Has(shadow, "version") THEN shadow.version ELSE UndefinedVersion

(***************************************************************************)
(* DolphinDevice (devices/dolphinDevice.ts)                                 *)
(***************************************************************************)
\* every catalogued model, and the fallback, has no temperature sensor
features == [hasTemperatureSensor |-> FALSE]

\* Date.now() in seconds, as the parser reads it
Now == MIN_VALID_UNIX_TIMESTAMP + 600

\* reported sections the appliance publishes: idle, cleaning with a mode,
\* and one whose pwsState is no string
ReportedDocs ==
  { [systemState |-> [pwsState |-> "idle"]],
    [systemState |-> [pwsState |-> "cleaning"],
     cycleInfo |-> [cleaningMode |-> [mode |-> "Floor"]]],
    [systemState |-> [pwsState |-> NonString]] }

\* the arguments of startCleaning(mode?) / setCleaningMode(mode): "none" is an
\* omitted argument, "turbo" is no key of CLEANING_MODES
ModeArgs == {"none", "floor", "turbo"}
Ops == {"startCleaning", "stopCleaning", "setCleaningMode", "pickup"}
Origins == {"start", "poll", "delayed"}

NoCommand == [op |-> "none", mode |-> "none", phase |-> "idle", before |-> {}]
NoStep == [op |-> "none", outcome |-> "none", emits |-> <<>>]

\* the shadow document a get/accepted message carries
Shadow(c) ==
  [version |-> c.version, state |-> [reported |-> c.reported]]

\* MaytronicsAPI.getThingShadow: the shadow, or undefined for every failure
\* (connect error, rejection, timeout), none of which it lets escape
getThingShadow(outcome, c) ==
  IF outcome = "accepted" THEN [defined |-> TRUE, shadow |-> Shadow(c)]
  ELSE [defined |-> FALSE]

\* "Apply temperature only if device supports it"
ApplyTemperature(parsedState) ==
  IF features.hasTemperatureSensor THEN parsedState
  ELSE Del(parsedState, "temperature")

\* processShadowState that parses whatever the version is
processShadowStateNoGuard(shadow, st, lsv) ==
  LET version == getShadowVersion(shadow)
  IN IF Has(shadow, "state") /\ Has(shadow.state, "reported")
        /\ ParseThrows(shadow.state.reported)
     THEN [state |-> st, lsv |-> version, threw |-> TRUE, skipped |-> FALSE]
     ELSE [state |-> ApplyTemperature(parseShadowState(shadow, st, Now)),
           lsv |-> version, threw |-> FALSE, skipped |-> FALSE]

\* processShadowState: skip a shadow of the last seen version; else record the
\* version, then parse (which may throw), drop the temperature, store
processShadowState(shadow, st, lsv) ==
  LET version == getShadowVersion(shadow)
  IN IF version # UndefinedVersion /\ version = lsv
     THEN [state |-> st, lsv |-> lsv, threw |-> FALSE, skipped |-> TRUE]
     ELSE IF Has(shadow, "state") /\ Has(shadow.state, "reported")
             /\ ParseThrows(shadow.state.reported)
     THEN [state |-> st, lsv |-> version, threw |-> TRUE, skipped |-> FALSE]
     ELSE [state |-> ApplyTemperature(parseShadowState(shadow, st, Now)),
           lsv |-> version, threw |-> FALSE, skipped |-> FALSE]

\* the rest of refreshState that emits 'disconnect' whatever the state is
SettleAlwaysEmits(p) ==
  IF p.threw
  THEN [state |-> Set(p.state, "connected", FALSE), lsv |-> p.lsv,
        emits |-> <<"disconnect">>, outcome |-> "threw"]
  ELSE [state |-> Set(p.state, "connected", TRUE), lsv |-> p.lsv,
        emits |-> <<"stateChange">>,
        outcome |-> IF p.skipped THEN "skipped" ELSE "parsed"]

\* the rest of refreshState once processShadowState returned or threw: mark
\* the state connected and emit 'stateChange'; in the catch block mark a
\* connected state disconnected and emit 'disconnect'
Settle(p) ==
  IF p.threw
  THEN IF p.state.connected
       THEN [state |-> Set(p.state, "connected", FALSE), lsv |-> p.lsv,
             emits |-> <<"disconnect">>, outcome |-> "threw"]
       ELSE [state |-> p.state, lsv |-> p.lsv, emits |-> <<>>,
             outcome |-> "threw"]
  ELSE [state |-> Set(p.state, "connected", TRUE), lsv |-> p.lsv,
        emits |-> <<"stateChange">>,
        outcome |-> IF p.skipped THEN "skipped" ELSE "parsed"]

\* refreshState once getThingShadow has answered: undefined does nothing, a
\* shadow is processed
refreshState(result, st, lsv) ==
  IF ~result.defined
  THEN [state |-> st, lsv |-> lsv, emits |-> <<>>, outcome |-> "undefined"]
  ELSE Settle(processShadowState(result.shadow, st, lsv))

\* the optimistic update a command applies once the API call returned true
Optimistic(op, mode, st) ==
  CASE op = "startCleaning" ->
         LET s == Set(Set(st, "isCleaning", TRUE), "muState", ROBOT_STATES.INIT)
         IN IF mode # "none" THEN Set(s, "cleaningMode", mode) ELSE s
    [] op = "stopCleaning" ->
         Set(Set(st, "isCleaning", FALSE), "muState", ROBOT_STATES.OFF)
    [] op = "setCleaningMode" -> Set(st, "cleaningMode", mode)
    [] op = "pickup" -> Set(st, "muState", ROBOT_STATES.PICKUP)

\* setCleaningMode is the one command that schedules no delayed refresh
SchedulesRefresh(op) == op # "setCleaningMode"

Notified(n, r) ==
  IF "disconnect" \in {r.emits[k] : k \in 1..Len(r.emits)} THEN TRUE
  ELSE IF r.outcome \in {"parsed", "skipped"} THEN FALSE
  ELSE n

\* Polling intervals (config/constants.ts), in seconds
DEFAULT_POLLING_INTERVAL == 60
MIN_POLLING_INTERVAL == 30
\* the largest delay a Node.js timer takes, in milliseconds
TIMEOUT_MAX == 2147483647
\* no pollingInterval in the platform configuration
NoInterval == 0
\* the values of pollingInterval in the platform configuration: none, below
\* the minimum, the minimum, the largest documented value, and the two on
\* either side of the delay a timer can take
ConfiguredIntervals ==
  {NoInterval, 10, MIN_POLLING_INTERVAL, 600, TIMEOUT_MAX \div 1000,
   (TIMEOUT_MAX \div 1000) + 1}
\* discoverDevices: Math.max(config.pollingInterval || DEFAULT, MIN)
ClampInterval(configured) ==
  Max(IF configured = NoInterval THEN DEFAULT_POLLING_INTERVAL
      ELSE configured,
      MIN_POLLING_INTERVAL)
\* the delay, in milliseconds, of setInterval(.., seconds * 1000): a delay
\* below 1 or above TIMEOUT_MAX is set to 1 by the timer
IntervalDelay(seconds) ==
  IF seconds < 1 \/ seconds > TIMEOUT_MAX \div 1000 THEN 1
  ELSE seconds * 1000

\* new DolphinDevice(config, api, log), as registerRobot constructs it from
\* the configured polling interval
DolphinDevice(configured) ==
  /\ state = createDefaultState
  /\ lastShadowVersion = UndefinedVersion
  /\ pollingTimer = FALSE
  /\ pollingInterval = ClampInterval(configured)
  /\ intervals = 0
  /\ delayed = 0
  /\ refreshing = {}
  /\ command = NoCommand
  /\ cloud = [version |-> 1, reported |-> [systemState |-> [pwsState |-> "idle"]]]
  /\ last = NoStep
  /\ notified = FALSE

InitDevice == DolphinDevice(NoInterval)

\* start() on a controller that is not polling: the initial refreshState()
\* is called and awaited
DeviceStart ==
  /\ "start" \notin refreshing
  /\ ~pollingTimer /\ intervals = 0
  /\ refreshing' = refreshing \cup {"start"}
  /\ last' = NoStep
  /\ UNCHANGED <<state, lastShadowVersion, pollingTimer, intervals, delayed,
                 command, cloud, notified>>
  /\ UNCHANGED pollingInterval
  /\ UNCHANGED otherThanDevice

\* stop(): clearInterval(this.pollingTimer) if it is set
DeviceStop ==
  /\ IF pollingTimer
     THEN intervals' = intervals - 1 /\ pollingTimer' = FALSE
     ELSE UNCHANGED <<intervals, pollingTimer>>
  /\ last' = NoStep
  /\ UNCHANGED <<state, lastShadowVersion, delayed, refreshing, command,
                 cloud, notified>>
  /\ UNCHANGED pollingInterval
  /\ UNCHANGED otherThanDevice

\* a live interval fires: refreshState() is called
PollFire ==
  /\ intervals > 0
  /\ "poll" \notin refreshing
  /\ refreshing' = refreshing \cup {"poll"}
  /\ last' = NoStep
  /\ UNCHANGED <<state, lastShadowVersion, pollingTimer, intervals, delayed,
                 command, cloud, notified>>
  /\ UNCHANGED pollingInterval
  /\ UNCHANGED otherThanDevice

\* a setTimeout of a command fires: refreshState() is called
DelayedFire ==
  /\ delayed > 0
  /\ "delayed" \notin refreshing
  /\ delayed' = delayed - 1
  /\ refreshing' = refreshing \cup {"delayed"}
  /\ last' = NoStep
  /\ UNCHANGED <<state, lastShadowVersion, pollingTimer, intervals, command,
                 cloud, notified>>
  /\ UNCHANGED pollingInterval
  /\ UNCHANGED otherThanDevice

\* what follows the refresh of start(): setInterval, stored in pollingTimer
AfterRefresh(origin) ==
  IF origin = "start"
  THEN pollingTimer' = TRUE /\ intervals' = intervals + 1
  ELSE UNCHANGED <<pollingTimer, intervals>>

\* getThingShadow() of a refreshState() call answers and refreshState runs on
RefreshComplete(origin, outcome) ==
  /\ origin \in refreshing
  /\ \E r \in {refreshState(getThingShadow(outcome, cloud), state,
                            lastShadowVersion)} :
        /\ state' = r.state
        /\ lastShadowVersion' = r.lsv
        /\ last' = [op |-> "refresh", outcome |-> r.outcome,
                    emits |-> r.emits]
        /\ notified' = Notified(notified, r)
  /\ refreshing' = refreshing \ {origin}
  /\ command' = [command EXCEPT !.before = @ \ {origin}]
  /\ AfterRefresh(origin)
  /\ UNCHANGED <<delayed, cloud>>
  /\ UNCHANGED pollingInterval
  /\ UNCHANGED otherThanDevice

\* a command that applies its optimistic update as soon as it is called
CommandCallEager(op, mode) ==
  /\ command.phase = "idle"
  /\ mode \in (CASE op = "startCleaning" -> ModeArgs
                 [] op = "setCleaningMode" -> ModeArgs \ {"none"}
                 [] OTHER -> {"none"})
  /\ IF op = "setCleaningMode" /\ mode \notin CLEANING_MODES
     THEN /\ last' = [op |-> op, outcome |-> "false",
                      emits |-> <<>>]
          /\ UNCHANGED <<command, state>>
     ELSE /\ command' = [op |-> op, mode |-> mode, phase |-> "awaiting",
                         before |-> refreshing]
          /\ state' = Optimistic(op, mode, state)
          /\ last' = [op |-> op, outcome |-> "awaiting",
                      emits |-> <<"stateChange">>]
  /\ UNCHANGED <<lastShadowVersion, pollingTimer, intervals, delayed,
                 refreshing, cloud, notified>>
  /\ UNCHANGED pollingInterval
  /\ UNCHANGED otherThanDevice

\* startCleaning / stopCleaning / setCleaningMode / pickup up to the await of
\* the API call; setCleaningMode of an unknown mode returns false at once
CommandCall(op, mode) ==
  /\ command.phase = "idle"
  /\ mode \in (CASE op = "startCleaning" -> ModeArgs
                 [] op = "setCleaningMode" -> ModeArgs \ {"none"}
                 [] OTHER -> {"none"})
  /\ IF op = "setCleaningMode" /\ mode \notin CLEANING_MODES
     THEN /\ last' = [op |-> op, outcome |-> "false",
                      emits |-> <<>>]
          /\ UNCHANGED command
     ELSE /\ command' = [op |-> op, mode |-> mode, phase |-> "awaiting",
                         before |-> refreshing]
          /\ last' = [op |-> op, outcome |-> "awaiting",
                      emits |-> <<>>]
  /\ UNCHANGED <<state, lastShadowVersion, pollingTimer, intervals, delayed,
                 refreshing, cloud, notified>>
  /\ UNCHANGED pollingInterval
  /\ UNCHANGED otherThanDevice

\* the awaited API call returns: true when the update was accepted, false when
\* it was rejected, timed out or threw; on true the state is updated
\* optimistically, 'stateChange' emitted and the delayed refresh scheduled
CommandResolve(outcome) ==
  /\ command.phase = "awaiting"
  /\ IF outcome = "accepted"
     THEN /\ cloud.version < MaxVersion
          /\ SchedulesRefresh(command.op) => delayed < MaxDelayed
          /\ cloud' = [cloud EXCEPT !.version = @ + 1]
          /\ state' = Optimistic(command.op, command.mode, state)
          /\ delayed' = IF SchedulesRefresh(command.op)
                        THEN delayed + 1 ELSE delayed
          /\ last' = [op |-> command.op,
                      outcome |-> "true", emits |-> <<"stateChange">>]
     ELSE /\ last' = [op |-> command.op,
                      outcome |-> "false", emits |-> <<>>]
          /\ UNCHANGED <<cloud, state, delayed>>
  /\ command' = NoCommand
  /\ UNCHANGED <<lastShadowVersion, pollingTimer, intervals, refreshing,
                 notified>>
  /\ UNCHANGED pollingInterval
  /\ UNCHANGED otherThanDevice

\* the get/accepted message answering a refresh that was in flight before the
\* command was called also fires the 'shadowUpdate' listener of the command's
\* updateShadow, which resolves true: the refresh runs on, then the command
\* applies its optimistic update, whatever becomes of the update itself
CommandCrosstalk(origin) ==
  /\ command.phase = "awaiting"
  /\ origin \in refreshing \cap command.before
  /\ SchedulesRefresh(command.op) => delayed < MaxDelayed
  /\ \E r \in {refreshState(getThingShadow("accepted", cloud), state,
                            lastShadowVersion)} :
        /\ state' = Optimistic(command.op, command.mode, r.state)
        /\ lastShadowVersion' = r.lsv
        /\ last' = [op |-> "crosstalk", outcome |-> r.outcome,
                    emits |-> r.emits \o <<"stateChange">>]
        /\ notified' = Notified(notified, r)
  /\ delayed' = IF SchedulesRefresh(command.op) THEN delayed + 1 ELSE delayed
  /\ refreshing' = refreshing \ {origin}
  /\ command' = NoCommand
  /\ AfterRefresh(origin)
  /\ UNCHANGED cloud
  /\ UNCHANGED pollingInterval
  /\ UNCHANGED otherThanDevice

\* the appliance reports a new state: the shadow changes, its version grows
CloudReport(d) ==
  /\ d # cloud.reported
  /\ cloud.version < MaxVersion
  /\ cloud' = [cloud EXCEPT !.reported = d, !.version = @ + 1]
  /\ last' = NoStep
  /\ UNCHANGED <<state, lastShadowVersion, pollingTimer, intervals, delayed,
                 refreshing, command, notified>>
  /\ UNCHANGED pollingInterval
  /\ UNCHANGED otherThanDevice

NextDevice ==
  \/ DeviceStart
  \/ PollFire
  \/ DelayedFire
  \/ \E origin \in Origins,
        outcome \in {"accepted", "rejected", "timeout", "error"} :
       RefreshComplete(origin, outcome)
  \/ \E op \in Ops, mode \in ModeArgs : CommandCall(op, mode)
  \/ \E outcome \in {"accepted", "rejected", "timeout", "error"} :
       CommandResolve(outcome)
  \/ \E origin \in Origins : CommandCrosstalk(origin)
  \/ \E d \in ReportedDocs : CloudReport(d)

\* the controller is started, stopped and commanded while it polls
NextPolling ==
  \/ DeviceStart
  \/ DeviceStop
  \/ PollFire
  \/ DelayedFire
  \/ \E origin \in Origins, outcome \in {"accepted", "error"} :
       RefreshComplete(origin, outcome)
  \/ \E op \in Ops, mode \in ModeArgs : CommandCall(op, mode)
  \/ \E outcome \in {"accepted", "rejected"} : CommandResolve(outcome)

(***************************************************************************)
(* AuthenticationManager, CredentialManager and the request path of         *)
(* MaytronicsAPI (api/auth/, api/maytronicsApi.ts)                          *)
(***************************************************************************)
CREDENTIAL_REFRESH_BUFFER_MS == 60 * 60 * 1000

LoginIds == 1..MaxLogins
RequestIds == 1..MaxRequests
\* the life times the backend gives the streaming credentials it issues
Lifetimes == {CREDENTIAL_REFRESH_BUFFER_MS, 2 * CREDENTIAL_REFRESH_BUFFER_MS}
\* getThingShadow, a plain shadow update (stop, pickup, set mode, start
\* without a mode), and startRobot with a cleaning mode
RequestKinds == {"get", "update", "startWithMode"}

\* awsCredentials of the CredentialManager; run 0 is undefined
NoAws == [run |-> 0, expiration |-> 0]
\* the stored state: each field holds the number of the login run that wrote
\* it (0 = undefined); mobToken stands for the four fields setMyDolphinAuth
\* writes together
NoAuth == [cognitoToken |-> 0, mobToken |-> 0, awsCredentials |-> NoAws,
           iotEndpoint |-> "default"]
\* the configurations: a refresh token, an email and password pair, or
\* neither
Configs == {"refreshToken", "password", "none"}
\* new AuthenticationManager(config, log) stores the configuration without
\* validating it and returns
Constructed(config) == [built |-> TRUE, config |-> config]
\* a login() run: where it is, the stored state when it started (recorded
\* for the runs started by LoginCall), and whether it has sent a request to
\* the network
NoLogin == [pc |-> "unused", before |-> NoAuth, sent |-> FALSE]
NoRequest == [kind |-> "none", pc |-> "idle", stage |-> 0,
              needed |-> <<FALSE, FALSE>>, login |-> <<0, 0>>,
              nested |-> "none", result |-> "none"]
\* what the catch block (ok = FALSE) or the end of the try block of a request
\* of this kind returns; every path of these methods returns, none rethrows
Returns(kind, ok) ==
  IF kind = "get" THEN (IF ok THEN "shadow" ELSE "undefined")
  ELSE (IF ok THEN "true" ELSE "false")
\* the request r returns: its record is kept only for what it returned
Finish(R, r, ok) ==
  [R EXCEPT ![r] = [NoRequest EXCEPT !.result = Returns(R[r].kind, ok)]]

\* CredentialManager.needsRefresh() at time t
needsRefresh(a, t) ==
  IF a.awsCredentials.run = 0 THEN TRUE
  ELSE a.awsCredentials.expiration < t + CREDENTIAL_REFRESH_BUFFER_MS

NextLogin(L) ==
  CHOOSE g \in LoginIds : L[g].pc = "unused"
     /\ \A h \in LoginIds : L[h].pc = "unused" => g <= h

\* login() up to the first await: authenticateWithCognito() sends the
\* Cognito exchange for the configured flow, or throws before sending
\* anything when neither flow is configured and login() rethrows
StartLogin(L, a) ==
  [g \in LoginIds |->
     IF g = NextLogin(L)
     THEN IF manager.config = "none"
          THEN [NoLogin EXCEPT !.pc = "failed"]
          ELSE [NoLogin EXCEPT !.pc = "cognito", !.before = a, !.sent = TRUE]
     ELSE L[g]]

InitAuth ==
  /\ auth = NoAuth
  /\ manager = Constructed("refreshToken")
  /\ logins = [g \in LoginIds |-> NoLogin]
  /\ requests = [r \in RequestIds |-> NoRequest]
  /\ clock = 0
  /\ mqttConnected = FALSE
  /\ mqttSignedBy = 0

\* no AuthenticationManager has been constructed yet
NoManager == [built |-> FALSE, config |-> "unset"]

\* new MaytronicsAPI(email, password, log, region, refreshToken), which
\* constructs the AuthenticationManager from the configuration it is given
Construct(config) ==
  /\ ~manager.built
  /\ manager' = Constructed(config)
  /\ UNCHANGED <<auth, logins, requests, clock, mqttConnected,
                 mqttSignedBy>>
  /\ UNCHANGED otherThanAuth

\* login() is called on the manager (by MaytronicsAPI.login, or by the
\* ensureValidCredentials() of a call that overlaps another one)
LoginCall ==
  /\ manager.built
  /\ \E g \in LoginIds : logins[g].pc = "unused"
  /\ logins' = StartLogin(logins, auth)
  /\ UNCHANGED <<auth, manager, requests, clock, mqttConnected,
                 mqttSignedBy>>
  /\ UNCHANGED otherThanAuth

\* ensureValidCredentials() that never looks at needsRefresh()
ensureValidCredentialsBlind(R, r, stage) ==
  /\ requests' = [R EXCEPT ![r].pc = "ready", ![r].stage = stage,
                           ![r].needed[stage] = needsRefresh(auth, clock),
                           ![r].login[stage] = 0]
  /\ UNCHANGED logins

\* ensureValidCredentials() of request r, whose record is R[r]: if
\* needsRefresh(), login() is called and awaited (no snapshot of the stored
\* state is taken for these runs)
ensureValidCredentials(R, r, stage) ==
  IF needsRefresh(auth, clock)
  THEN /\ \E g \in LoginIds : logins[g].pc = "unused"
       /\ logins' = StartLogin(logins, NoAuth)
       /\ requests' = [R EXCEPT ![r].pc = "login", ![r].stage = stage,
                                ![r].needed[stage] = TRUE,
                                ![r].login[stage] = NextLogin(logins)]
  ELSE /\ requests' = [R EXCEPT ![r].pc = "ready", ![r].stage = stage,
                                ![r].needed[stage] = FALSE,
                                ![r].login[stage] = 0]
       /\ UNCHANGED logins

\* getThingShadow / stopRobot / ... / startRobot is called: it calls
\* ensureConnectedMQTT(), which first awaits ensureValidCredentials()
RequestCall(r, kind) ==
  /\ requests[r].pc = "idle"
  /\ ensureValidCredentials([requests EXCEPT ![r] =
                               [NoRequest EXCEPT !.kind = kind]], r, 1)
  /\ UNCHANGED <<auth, clock, mqttConnected>>
  /\ UNCHANGED <<manager, mqttSignedBy>>
  /\ UNCHANGED otherThanAuth

\* one step of a login run ends: its result is stored at once, or the run
\* fails and login() rethrows
LoginStep(g, from, ok, to, a) ==
  /\ logins[g].pc = from
  /\ IF ok
     THEN /\ auth' = a
          /\ logins' = [logins EXCEPT ![g].pc = to]
     ELSE /\ logins' = [logins EXCEPT ![g].pc = "failed",
                                      ![g].before = NoAuth]
          /\ UNCHANGED auth
  /\ UNCHANGED <<requests, clock, mqttConnected>>
  /\ UNCHANGED <<manager, mqttSignedBy>>
  /\ UNCHANGED otherThanAuth

\* step 1: setCognitoToken(idToken)
authenticateWithCognito(g, ok) ==
  LoginStep(g, "cognito", ok, "mydolphin", [auth EXCEPT !.cognitoToken = g])

\* step 2: setMyDolphinAuth(...)
authenticateWithMyDolphin(g, ok) ==
  LoginStep(g, "mydolphin", ok, "aws", [auth EXCEPT !.mobToken = g])

\* step 3: setAWSCredentials(...), then the endpoint discovery is awaited
getAWSCredentials(g, ok, lifetime) ==
  LoginStep(g, "aws", ok, "discover",
            [auth EXCEPT !.awsCredentials =
                           [run |-> g, expiration |-> clock + lifetime]])

\* how DescribeEndpoint ends: with an address, with a response that has no
\* address, or by throwing (the client cannot be built, the request fails)
Discoveries == {"address", "noAddress", "throws"}

\* a discoverIoTEndpoint whose failure is fatal: login() throws and the
\* endpoint falls back to the default
discoverIoTEndpointFatal(g, outcome) ==
  /\ logins[g].pc = "discover"
  /\ auth' = [auth EXCEPT !.iotEndpoint = IF outcome = "address"
                                          THEN "discovered" ELSE "default"]
  /\ logins' = [logins EXCEPT ![g].pc = IF outcome = "address"
                                        THEN "done" ELSE "failed",
                              ![g].before = NoAuth]
  /\ UNCHANGED <<requests, clock, mqttConnected>>
  /\ UNCHANGED <<manager, mqttSignedBy>>
  /\ UNCHANGED otherThanAuth

\* discoverIoTEndpoint: the address is stored; a response without one and a
\* throw are logged and the endpoint kept; login() then returns
discoverIoTEndpoint(g, outcome) ==
  /\ logins[g].pc = "discover"
  /\ auth' = IF outcome = "address"
             THEN [auth EXCEPT !.iotEndpoint = "discovered"]
             ELSE auth
  /\ logins' = [logins EXCEPT ![g].pc = "done", ![g].before = NoAuth]
  /\ UNCHANGED <<requests, clock, mqttConnected>>
  /\ UNCHANGED <<manager, mqttSignedBy>>
  /\ UNCHANGED otherThanAuth

\* the updateShadow of startRobot itself, which follows the nested
\* setCleaningMode whatever that returned (nested: true or false)
PublishStart(R, r, ok) ==
  [R EXCEPT ![r].pc = "sent", ![r].stage = 3,
            ![r].nested = IF ok THEN "true" ELSE "false"]

\* the awaited login() of a request has returned or thrown.  A throw makes
\* the request return undefined/false, except in the setCleaningMode nested
\* in startRobot, whose result startRobot ignores
LoginReturn(r) ==
  /\ requests[r].pc = "login"
  /\ LET g == requests[r].login[requests[r].stage]
     IN /\ logins[g].pc \in {"done", "failed"}
        /\ requests' =
             IF logins[g].pc = "done"
             THEN [requests EXCEPT ![r].pc = "ready"]
             ELSE IF requests[r].stage = 2
             THEN PublishStart(requests, r, FALSE)
             ELSE Finish(requests, r, FALSE)
  /\ UNCHANGED <<auth, logins, clock, mqttConnected>>
  /\ UNCHANGED <<manager, mqttSignedBy>>
  /\ UNCHANGED otherThanAuth

\* the rest of ensureConnectedMQTT(): if there is no client or it is not
\* connected, initializeMQTTClient() builds one from the stored credentials
\* and connects it (a failure makes the request return undefined/false);
\* a connected client is left as it is.  Then the request is published, or
\* startRobot calls setCleaningMode first, which runs ensureConnectedMQTT()
\* again
EnsureConnected(r, connects) ==
  /\ requests[r].pc = "ready"
  /\ IF ~mqttConnected /\ ~connects
     THEN /\ requests' =
               IF requests[r].stage = 2
               THEN PublishStart(requests, r, FALSE)
               ELSE Finish(requests, r, FALSE)
          /\ UNCHANGED <<logins, mqttConnected, mqttSignedBy>>
     ELSE /\ mqttConnected' = TRUE
          /\ mqttSignedBy' = IF mqttConnected THEN mqttSignedBy
                             ELSE auth.awsCredentials.run
          /\ IF requests[r].kind = "startWithMode" /\ requests[r].stage = 1
             THEN ensureValidCredentials(requests, r, 2)
             ELSE /\ requests' = [requests EXCEPT ![r].pc = "sent"]
                  /\ UNCHANGED logins
  /\ UNCHANGED <<auth, clock>>
  /\ UNCHANGED manager
  /\ UNCHANGED otherThanAuth

\* the published request is answered (ok), or it is rejected or times out;
\* startRobot then publishes its own update
Response(r, ok) ==
  /\ requests[r].pc = "sent"
  /\ requests' = IF requests[r].stage = 2
                 THEN PublishStart(requests, r, ok)
                 ELSE Finish(requests, r, ok)
  /\ UNCHANGED <<auth, logins, clock, mqttConnected>>
  /\ UNCHANGED <<manager, mqttSignedBy>>
  /\ UNCHANGED otherThanAuth

\* time passes
Tick ==
  /\ clock < MaxTicks * CREDENTIAL_REFRESH_BUFFER_MS
  /\ clock' = clock + CREDENTIAL_REFRESH_BUFFER_MS
  /\ UNCHANGED <<auth, logins, requests, mqttConnected>>
  /\ UNCHANGED <<manager, mqttSignedBy>>
  /\ UNCHANGED otherThanAuth

\* the request path.  The endpoint discovery of a login run finds the
\* address here: no step of the request path reads the endpoint, and the
\* ways the discovery can fail are explored by NextLoginRuns
NextAuth ==
  \/ \E r \in RequestIds, kind \in RequestKinds : RequestCall(r, kind)
  \/ \E g \in LoginIds, ok \in BOOLEAN : authenticateWithCognito(g, ok)
  \/ \E g \in LoginIds, ok \in BOOLEAN : authenticateWithMyDolphin(g, ok)
  \/ \E g \in LoginIds, ok \in BOOLEAN, lifetime \in Lifetimes :
       getAWSCredentials(g, ok, lifetime)
  \/ \E g \in LoginIds : discoverIoTEndpoint(g, "address")
  \/ \E r \in RequestIds : LoginReturn(r)
  \/ \E r \in RequestIds, connects \in BOOLEAN : EnsureConnected(r, connects)
  \/ \E r \in RequestIds, ok \in BOOLEAN : Response(r, ok)
  \/ Tick

\* login() runs on a manager constructed from any configuration
NextLoginRuns ==
  \/ \E config \in Configs : Construct(config)
  \/ LoginCall
  \/ \E g \in LoginIds, ok \in BOOLEAN : authenticateWithCognito(g, ok)
  \/ \E g \in LoginIds, ok \in BOOLEAN : authenticateWithMyDolphin(g, ok)
  \/ \E g \in LoginIds, ok \in BOOLEAN, lifetime \in Lifetimes :
       getAWSCredentials(g, ok, lifetime)
  \/ \E g \in LoginIds, outcome \in Discoveries :
       discoverIoTEndpoint(g, outcome)

(***************************************************************************)
(* parseShadowState called on successive shadow documents, each call        *)
(* receiving the state the previous one returned                            *)
(***************************************************************************)
\* the sections of a reported document, each absent or in one of its shapes
SystemStateSections ==
  { <<>>,
    [systemState |-> [pwsState |-> "idle"]],
    [systemState |-> [pwsState |-> "holdWeekly", robotState |-> "cleaning"]],
    [systemState |-> [pwsState |-> "cleaning"]],
    [systemState |-> [pwsState |-> NonString]],
    [robotState |-> [isOn |-> TRUE]] }
CycleInfoSections ==
  { <<>>,
    [cycleInfo |-> [cycleStartTimeUTC |-> Now - 5 * SECONDS_PER_MINUTE]],
    [cycleInfo |-> [cycleState |-> "cleaning"]],
    [cycleInfo |-> [cleaningMode |-> [mode |-> "Floor", cycleTime |-> 60]]],
    [cycleInfo |-> [cycleTimeRemaining |-> [hours |-> 3, minutes |-> 0]]] }
FilterSections ==
  { <<>>,
    [filterBagIndication |-> [state |-> 90]] }
\* legacy keys; cycle_info 001E is 30 minutes elapsed
LegacySections ==
  { <<>>,
    [mu_state |-> ROBOT_STATES.CLEANING],
    [cycle_info |-> <<0, 0, 1, 14>>],
    [filter_state |-> 1] }
ReportedSections ==
  { mergeState(mergeState(mergeState(a, b), c), d) :
      a \in SystemStateSections, b \in CycleInfoSections,
      c \in FilterSections, d \in LegacySections }
\* a shadow document with a reported section, and one without
EmptyShadow == [version |-> 1]
ShadowDocs ==
  {[version |-> 1, state |-> [reported |-> r]] : r \in ReportedSections}
    \cup {EmptyShadow}

NoParse == [done |-> FALSE, threw |-> FALSE, state |-> createDefaultState]

InitParser(s) ==
  /\ previous = createDefaultState
  /\ document = s
  /\ parsed = NoParse
  /\ parseCount = 0

\* parseShadowState(shadow, existingState) returns, or throws the TypeError
\* of parseNewFormat
ParseShadowState ==
  /\ ~parsed.done
  /\ parsed' =
       IF Has(document, "state") /\ Has(document.state, "reported")
          /\ ParseThrows(document.state.reported)
       THEN [done |-> TRUE, threw |-> TRUE, state |-> previous]
       ELSE [done |-> TRUE, threw |-> FALSE,
             state |-> parseShadowState(document, previous, Now)]
  /\ UNCHANGED <<previous, document, parseCount>>
  /\ UNCHANGED otherThanParse

\* the next document arrives; the caller keeps the state that was returned
\* (processShadowState stores it, and keeps the old one when the parse threw)
NextShadowDoc(s) ==
  /\ parsed.done
  /\ parseCount < MaxParses
  /\ previous' = IF parsed.threw THEN previous ELSE parsed.state
  /\ document' = s
  /\ parsed' = NoParse
  /\ parseCount' = parseCount + 1
  /\ UNCHANGED otherThanParse

NextParse ==
  \/ ParseShadowState
  \/ \E s \in ShadowDocs : NextShadowDoc(s)

\* ---- documents that carry fault and filter data ----
\* robotError: absent, a sentinel, and a code with no turn-on count (which
\* isCurrentSessionError takes to be of the current session)
RobotErrorSections ==
  { <<>>,
    [robotError |-> [errorCode |-> ERROR_CODE_NOT_APPLICABLE]],
    [robotError |-> [errorCode |-> 2]] }
PwsErrorSections ==
  { <<>>,
    [pwsError |-> [errorCode |-> ERROR_CODE_NO_ERROR]],
    [pwsError |-> [errorCode |-> 3]] }
FaultCodeSections ==
  { <<>>,
    [faultCodes |-> [faultCode |-> ERROR_CODE_NOT_APPLICABLE]],
    [faultCodes |-> [faultCode |-> 4]] }
\* the legacy faults field: absent, "00", "ff" and "02"
HexFaultSections ==
  { <<>>,
    [faults |-> <<0, 0>>],
    [faults |-> <<15, 15>>],
    [faults |-> <<0, 2>>] }
\* the filter fullness: absent, at the threshold and just above it
FullnessSections ==
  { <<>>,
    [filterBagIndication |-> [state |-> FILTER_NEEDS_CLEANING_THRESHOLD]],
    [filterBagIndication |-> [state |-> FILTER_NEEDS_CLEANING_THRESHOLD + 1]],
    [filterIndicator |-> [state |-> FILTER_NEEDS_CLEANING_THRESHOLD + 1]] }
FaultDocs ==
  { [version |-> 1,
     state |-> [reported |->
       mergeState(mergeState(mergeState(mergeState(a, c), d), e), f)]] :
      a \in RobotErrorSections, c \in PwsErrorSections,
      d \in FaultCodeSections, e \in HexFaultSections,
      f \in FullnessSections }

NextFaults ==
  \/ ParseShadowState
  \/ \E s \in FaultDocs : NextShadowDoc(s)

(***************************************************************************)
(* The command frame codec: protocol/commandBuilder.ts, and the builder     *)
(* that MQTTClient carries (api/mqttClient.ts)                              *)
(***************************************************************************)
\* A hex string is a sequence of chunks; a chunk is a list of hex digits
\* (0..15) written `times` times.  The payload is one chunk, a byte repeated;
\* everything else is written once.
Chunk(digits) == [digits |-> digits, times |-> 1]
\* a payload of n bytes, each of value b
Payload(n, b) == [digits |-> <<b \div 16, b % 16>>, times |-> n]
\* String.length
HexLength(chunk) == Len(chunk.digits) * chunk.times

\* the command table (ble_commands_iot.json): destination and opcode of each
\* named command, and the constants of message_pattern
Commands ==
  [turnOnRobot |-> [destination |-> <<15, 15, 15, 8>>, opcode |-> <<0, 6>>],
   turnOffRobot |-> [destination |-> <<15, 15, 15, 8>>, opcode |-> <<0, 5>>],
   setMode_floor |-> [destination |-> <<15, 15, 14, 9>>, opcode |-> <<0, 3>>]]
sop_preamble == <<10, 11>>
src == <<0, 3>>

\* the command names the builders are called with; the last is in no table
CommandNames == DOMAIN Commands \cup {"selfDestruct"}
\* the byte counts of the payloads: none, short ones, and those around the
\* one-byte and the two-byte limits of the length field
PayloadLengths == {0, 1, 2, 255, 256, 257, 65535, 65536}
\* the byte the payload repeats
PayloadBytes == {0, 90, 255}
\* the data arguments: undefined (or ''), or an even-length hex string
NoData == Payload(0, 0)
DataArgs ==
  {Payload(n, b) : n \in PayloadLengths \ {0}, b \in PayloadBytes}
    \cup {NoData}

\* Number.prototype.toString(16): the hex digits of n, most significant first
RECURSIVE toString16(_)
toString16(n) ==
  IF n < 16 THEN <<n>> ELSE toString16(n \div 16) \o <<n % 16>>

\* String.prototype.padStart(width, '0')
RECURSIVE padStart(_, _)
padStart(digits, width) ==
  IF Len(digits) >= width THEN digits ELSE padStart(<<0>> \o digits, width)

\* a run of count bytes of one value
Run(byte, count) == [byte |-> byte, count |-> count]

\* substring(i, i + 2) for i = 0, 2, ... over digits written once, parsed by
\* parseInt(.., 16); carry is the digit left over before them (-1 when none)
RECURSIVE PairDigits(_, _)
PairDigits(digits, carry) ==
  IF digits = <<>> THEN [runs |-> <<>>, carry |-> carry]
  ELSE IF carry = -1 THEN PairDigits(Tail(digits), Head(digits))
  ELSE LET rest == PairDigits(Tail(digits), -1)
       IN [runs |-> <<Run(16 * carry + Head(digits), 1)>> \o rest.runs,
           carry |-> rest.carry]

\* the same over one chunk
PairChunk(chunk, carry) ==
  IF chunk.times = 0 THEN [runs |-> <<>>, carry |-> carry]
  ELSE IF chunk.times = 1 THEN PairDigits(chunk.digits, carry)
  ELSE IF carry = -1
       THEN [runs |-> <<Run(16 * chunk.digits[1] + chunk.digits[2],
                            chunk.times)>>,
             carry |-> -1]
       ELSE [runs |-> <<Run(16 * carry + chunk.digits[1], 1),
                        Run(16 * chunk.digits[2] + chunk.digits[1],
                            chunk.times - 1)>>,
             carry |-> chunk.digits[2]]

\* the values parseInt gives for the successive pairs of a hex string; with
\* lone, a digit left alone at the end is parsed too (the loop of
\* calculateChecksum), without it the digit is dropped (Buffer.from(.., 'hex'))
RECURSIVE Pairs(_, _, _)
Pairs(hex, carry, lone) ==
  IF hex = <<>>
  THEN IF carry = -1 \/ ~lone THEN <<>> ELSE <<Run(carry, 1)>>
  ELSE LET first == PairChunk(Head(hex), carry)
       IN first.runs \o Pairs(Tail(hex), first.carry, lone)

\* checksum += byte, for every byte of the runs
RECURSIVE Sum(_)
Sum(runs) ==
  IF runs = <<>> THEN 0
  ELSE Head(runs).byte * Head(runs).count + Sum(Tail(runs))

\* a ^ b on bytes
RECURSIVE Xor(_, _)
Xor(a, b) ==
  IF a = 0 THEN b
  ELSE IF b = 0 THEN a
  ELSE (2 * Xor(a \div 2, b \div 2)) + ((a + b) % 2)

\* checksum ^= byte, for every byte of the runs
RECURSIVE XorAll(_)
XorAll(runs) ==
  IF runs = <<>> THEN 0
  ELSE Xor(IF Head(runs).count % 2 = 1 THEN Head(runs).byte ELSE 0,
           XorAll(Tail(runs)))

\* calculateChecksum(message) of commandBuilder.ts: the sum of the bytes, its
\* lower 16 bits, written low byte first
calculateChecksum(message) ==
  LET checksum == Sum(Pairs(message, -1, TRUE)) % 65536
      lowByte == padStart(toString16(checksum % 256), 2)
      highByte == padStart(toString16((checksum \div 256) % 256), 2)
  IN lowByte \o highByte

\* MQTTClient.calculateChecksum(message): the XOR of the bytes, one byte
MQTTClient_calculateChecksum(message) ==
  padStart(toString16(XorAll(Pairs(message, -1, TRUE))), 2)

\* what a builder returns when it builds nothing
Undefined == [defined |-> FALSE, hex |-> <<>>]

\* the message both builders assemble before the checksum: preamble, source,
\* destination, opcode, the data length written by toString(16) and padded to
\* four digits, and the data
Message(cmdDef, data) ==
  LET dataLength == HexLength(data) \div 2
  IN <<Chunk(sop_preamble \o src \o cmdDef.destination \o cmdDef.opcode),
       Chunk(padStart(toString16(dataLength), 4)),
       data>>

\* buildCommand(commandName, data) of commandBuilder.ts: undefined for a name
\* that is not in the table, else the frame
buildCommand(commandName, data) ==
  IF commandName \notin DOMAIN Commands THEN Undefined
  ELSE LET message == Message(Commands[commandName], data)
       IN [defined |-> TRUE,
           hex |-> message \o <<Chunk(calculateChecksum(message))>>]

\* MQTTClient.buildCommand(commandName, data)
MQTTClient_buildCommand(commandName, data) ==
  IF commandName \notin DOMAIN Commands THEN Undefined
  ELSE LET message == Message(Commands[commandName], data)
       IN [defined |-> TRUE,
           hex |-> message \o <<Chunk(MQTTClient_calculateChecksum(message))>>]

\* the bytes of a frame: Buffer.from(hex, 'hex')
Buffer(frame) == Pairs(frame.hex, -1, FALSE)

NoBuild == [by |-> "none", commandName |-> "", data |-> NoData,
            result |-> Undefined]

InitCodec == built = NoBuild

\* a caller builds a frame with commandBuilder.ts
BuildCommand(commandName, data) ==
  /\ built' = [by |-> "commandBuilder", commandName |-> commandName,
               data |-> data, result |-> buildCommand(commandName, data)]
  /\ UNCHANGED otherThanCodec

\* a caller builds a frame with the MQTTClient
ClientBuildCommand(commandName, data) ==
  /\ built' = [by |-> "MQTTClient", commandName |-> commandName,
               data |-> data,
               result |-> MQTTClient_buildCommand(commandName, data)]
  /\ UNCHANGED otherThanCodec

NextCodec ==
  \/ \E commandName \in CommandNames, data \in DataArgs :
       BuildCommand(commandName, data)
  \/ \E commandName \in CommandNames, data \in DataArgs :
       ClientBuildCommand(commandName, data)

(***************************************************************************)
(* Specifications                                                           *)
(***************************************************************************)
Init ==
  InitMqtt /\ InitDevice /\ InitAuth /\ InitParser(EmptyShadow) /\ InitCodec
InitParse ==
  /\ InitMqtt /\ InitDevice /\ InitAuth /\ InitCodec
  /\ \E s \in ShadowDocs : InitParser(s)

\* the connection life cycle of the MQTTClient
SpecConn == Init /\ [][NextConn]_vars
\* the same, with the events of a transport delivered: the event loop runs
\* every handler of an event the transport has emitted; the calls made on the
\* client (connect, disconnect, updateCredentials) are under no obligation
SpecConnLive ==
  /\ Init /\ [][NextConn]_vars
  /\ \A t \in TransportIds :
       /\ WF_vars(TransportConnect(t))
       /\ WF_vars(SubscribeDone(t, {}))
       /\ WF_vars(TransportClose(t))
       /\ WF_vars(TransportReconnect(t))
\* the shadow request/response facade of the MQTTClient
SpecShadow == Init /\ [][NextShadow]_vars
\* the device controller against a changing cloud shadow
SpecDevice == Init /\ [][NextDevice]_vars
\* logins and the requests that need valid credentials
SpecAuth == Init /\ [][NextAuth]_vars
\* shadow requests and their responses, rejections and timeouts
SpecRequest == Init /\ [][NextRequest]_vars
\* connecting, subscribing, losing and giving up the connection
SpecLifecycle == Init /\ [][NextLifecycle]_vars
\* the shadow state parser on successive documents
\* before the AuthenticationManager is constructed
InitLogin ==
  /\ InitMqtt /\ InitDevice /\ InitParser(EmptyShadow) /\ InitCodec
  /\ auth = NoAuth
  /\ manager = NoManager
  /\ logins = [g \in LoginIds |-> NoLogin]
  /\ requests = [r \in RequestIds |-> NoRequest]
  /\ clock = 0
  /\ mqttConnected = FALSE
  /\ mqttSignedBy = 0

SpecLogin == InitLogin /\ [][NextLoginRuns]_vars

\* a controller constructed from any configured polling interval
InitPolling ==
  /\ InitMqtt /\ InitAuth /\ InitParser(EmptyShadow) /\ InitCodec
  /\ \E configured \in ConfiguredIntervals : DolphinDevice(configured)

SpecPolling == InitPolling /\ [][NextPolling]_vars

SpecCodec == Init /\ [][NextCodec]_vars

SpecParse == InitParse /\ [][NextParse]_vars

\* parseShadowState called on documents that carry fault and filter data
InitFaults ==
  /\ InitMqtt /\ InitDevice /\ InitAuth /\ InitCodec
  /\ \E s \in FaultDocs : InitParser(s)

SpecFaults == InitFaults /\ [][NextFaults]_vars

(***************************************************************************)
(* Claims about MQTTClient                                                  *)
(***************************************************************************)
Registered(L, ev, l) == \E k \in 1..Len(L[ev]) : L[ev][k] = l

\* C1: when a getShadow or updateShadow call settles (accepted, rejected or
\* timed out) it removes only the listeners it registered itself: every
\* shadowUpdate/shadowRejected listener of another call that is still in
\* flight, and every listener of another subscriber, is still registered
\* after the step.
C1_ScopedListenerCleanup ==
  [][\A id \in CallIds :
       (InFlight(calls, id) /\ calls'[id].settled) =>
         \A ev \in Events : \A k \in 1..Len(listeners[ev]) :
            LET l == listeners[ev][k]
            IN (l.owner = 0 \/ (l.owner # id /\ ~calls'[l.owner].settled))
                 => Registered(listeners', ev, l)]_vars

\* C2: a getShadow call that receives no accepted or rejected response before
\* its timer fires rejects with the shadow-timeout kind, and the number of
\* shadowUpdate and of shadowRejected listeners is then what it was before
\* the call (no other call having been in flight meanwhile).
C2_TimeoutRestoresListenerCount ==
  [][\A id \in CallIds :
       (Timeout(id) /\ calls[id].kind = "get" /\ ~calls[id].settled
          /\ ~calls[id].overlap) =>
         /\ calls'[id].result = "shadow-timeout"
         /\ Len(listeners'["shadowUpdate"]) = calls[id].base[1]
         /\ Len(listeners'["shadowRejected"]) = calls[id].base[2]]_vars

\* C7: updateCredentials(newCreds) on a connected client ends the current
\* transport and opens a new one whose URL is signed from newCreds; on a
\* client that is not connected it opens no connection.
C7_UpdateCredentialsReconnects ==
  [][\A c \in CredSet :
       updateCredentials(c) =>
         IF connected
         THEN /\ client # 0 => transports'[client].st = "ended"
              /\ client' # 0 /\ client' # client
              /\ transports[client'].st = "unused"
              /\ transports'[client'].st = "connecting"
              /\ transports'[client'].url = SignedUrl(c)
         ELSE /\ transports' = transports
              /\ client' = client]_vars

\* C7 witness: a rotation on a connected client has replaced a transport
\* signed from the first credentials by one signed from the second
C7_Witness ==
  /\ rotation = "reconnected"
  /\ credentials = Cred(2)
  /\ client # 0
  /\ transports[client].url = SignedUrl(Cred(2))
  /\ \E t \in TransportIds :
       transports[t].st \in {"ended", "dead"}
         /\ transports[t].url = SignedUrl(Cred(1))

\* the topics that carry the rejection of a shadow request
RejectionTopics == {"get/rejected", "update/rejected"}

\* C15: updateShadow issued on a connected client never throws on rejection
\* or timeout: the call settles with true or false only; it resolves to false
\* when its timer fires first and when a rejection reaches its listener, and
\* false is the result of nothing else.
C15_UpdateResolvesFalse ==
  [][\A id \in CallIds :
       (calls[id].kind = "update" /\ calls[id].result = "pending") =>
         /\ calls'[id].result \in {"pending", "true", "false"}
         /\ Timeout(id) => (calls'[id].result = "false"
                              /\ calls'[id].by = "timeout")
         /\ (/\ \E topic \in RejectionTopics, re \in {0} \cup CallIds :
                   handleMessage(topic, TRUE, re)
             /\ Registered(listeners, "shadowRejected", CallListener(id))) =>
              (calls'[id].result = "false"
                 /\ calls'[id].by = "shadowRejected")
         /\ calls'[id].result = "false" =>
              calls'[id].by \in {"timeout", "shadowRejected"}]_vars

\* C15 witness: one updateShadow has resolved to false by a rejection and
\* another by its timeout
C15_Witness ==
  \E i, j \in CallIds :
    /\ calls[i].kind = "update" /\ calls[i].result = "false"
    /\ calls[i].by = "shadowRejected"
    /\ calls[j].kind = "update" /\ calls[j].result = "false"
    /\ calls[j].by = "timeout"

\* C16: a shadow response that arrives after its request has timed out
\* settles no request, neither the one that timed out nor one issued
\* afterwards.
C16_LateResponseDropped ==
  [][\A re \in CallIds, topic \in Topics :
       (handleMessage(topic, TRUE, re) /\ calls[re].by = "timeout") =>
         \A id \in CallIds : calls'[id].settled = calls[id].settled]_vars

\* a transport that mqtt.connect() opened and nothing has ended: it is
\* connecting, connected, or closed by the network and about to reconnect
LiveTransports ==
  {t \in TransportIds : transports[t].st \notin {"unused", "ended", "dead"}}

\* C36: at any time at most one live transport connection exists: neither
\* repeated or overlapping connect() calls nor re-initialisations leave a
\* second underlying connection open.
C36_OneLiveTransport ==
  Cardinality(LiveTransports) <= 1

\* C37: every call to connect() eventually settles: its promise is resolved
\* or rejected under every sequence of transport events and also when
\* disconnect() is called while the connection attempt is pending.
C37_ConnectSettles ==
  \A t \in TransportIds :
    (transports[t].promise = "pending") ~> (transports[t].promise # "pending")

\* the topics whose messages are responses to a request of the kind
ResponseTopics(kind) ==
  IF kind = "get" THEN {"get/accepted", "get/rejected"}
  ELSE {"update/accepted", "update/rejected"}

\* C34: a pending getShadow is settled only by a get/accepted or get/rejected
\* message and a pending updateShadow only by an update/accepted or
\* update/rejected message: whatever calls are in flight together, a message
\* settles no call of the other kind.
C34_ResponseSettlesOwnKind ==
  [][\A topic \in Topics, parses \in BOOLEAN, re \in {0} \cup CallIds :
       handleMessage(topic, parses, re) =>
         \A id \in CallIds :
           (~calls[id].settled /\ calls'[id].settled) =>
             topic \in ResponseTopics(calls[id].kind)]_vars

\* C18: the client is not ready before subscribeToTopics() has completed on
\* the connected transport: isConnected() is false while the subscriptions
\* are being made, and a shadow request is published only on a client whose
\* subscriptions have all been attempted.
C18_ReadyAfterSubscriptions ==
  [][/\ \A t \in TransportIds :
          (transports'[t].st = "subscribing" /\ client' = t) => ~connected'
     /\ published' # published =>
          (client # 0 /\ transports[client].st = "online")]_vars

\* C20: getShadow and updateShadow called while the client is not connected
\* reject with the not-connected error, publish nothing and register no
\* listener (and start no timer).
C20_NotConnectedRejects ==
  [][\A id \in CallIds, kind \in {"get", "update"} :
       (ShadowCall(id, kind) /\ ~connected) =>
         /\ calls'[id].result = "not-connected"
         /\ ~calls'[id].timer
         /\ published' = published
         /\ listeners' = listeners]_vars

\* C20 witness: a getShadow and an updateShadow were both rejected as not
\* connected, nothing was published and no listener is registered
C20_Witness ==
  /\ ~connected
  /\ calls[1].kind = "get" /\ calls[1].result = "not-connected"
  /\ calls[2].kind = "update" /\ calls[2].result = "not-connected"
  /\ published = <<>>
  /\ \A ev \in Events : listeners[ev] = <<>>

\* the 'close' handler, the one place that emits 'disconnected', runs
DisconnectedEmitted == \E u \in TransportIds : TransportClose(u)
\* the attempt counted by this step is past the maximum
Exceeds(t) ==
  TransportReconnect(t) /\ reconnectAttempts' > maxReconnectAttempts

C19_SubscribeFailureNotFatal ==
  [][\A t \in TransportIds, failed \in FailureSets \ {{}} :
       SubscribeDone(t, failed) =>
         /\ transports'[t].st = "online"
         /\ transports[t].promise = "pending" =>
              transports'[t].promise = "resolved"
         /\ transports'[t].promise # "rejected"
              \/ transports[t].promise = "rejected"
         /\ client' = client
         /\ connected' = connected]_vars

\* C19 witness: the client is connected and its connect() has resolved on a
\* transport none of whose subscriptions was granted
C19_Witness ==
  /\ connected /\ client # 0
  /\ transports[client].st = "online"
  /\ transports[client].promise = "resolved"
  /\ transports[client].subs = {}

(***************************************************************************)
(* Claims about DolphinDevice                                               *)
(***************************************************************************)
Emitted(ev, step) == \E k \in 1..Len(step.emits) : step.emits[k] = ev
EmitCount(ev, step) ==
  Cardinality({k \in 1..Len(step.emits) : step.emits[k] = ev})
FetchFailures == {"rejected", "timeout", "error"}

\* C3: a refresh whose shadow fetch errors, is rejected or times out while
\* the state has connected = true sets connected = false and emits a
\* 'disconnect' event.
C3_FailedRefreshDisconnects ==
  [][\A origin \in Origins, outcome \in FetchFailures :
       (RefreshComplete(origin, outcome) /\ state.connected) =>
         (~state'.connected /\ Emitted("disconnect", last'))]_vars

\* C4: exactly one 'disconnect' event per connected-to-disconnected
\* transition: a step emits 'disconnect' exactly when it takes connected from
\* true to false, it emits it once, never while a 'disconnect' is already
\* outstanding, and only a refresh that succeeded sets connected = true again.
C4_OneDisconnectPerTransition ==
  [][/\ Emitted("disconnect", last') <=> (state.connected /\ ~state'.connected)
     /\ Emitted("disconnect", last') =>
          (~notified /\ EmitCount("disconnect", last') = 1)
     /\ (~state.connected /\ state'.connected) =>
          (last'.outcome \in {"parsed", "skipped"} /\ ~notified')]_vars

\* C4 witness: a refresh threw while a 'disconnect' was outstanding and
\* emitted nothing
C4_Witness ==
  /\ notified
  /\ ~state.connected
  /\ last.op = "refresh" /\ last.outcome = "threw" /\ last.emits = <<>>

\* what the reported section of the cloud shadow says about the three fields
ReportedView(reported) ==
  LET p == mergeState(parseNewFormat(reported, Now),
                      parseLegacyFormat(reported))
  IN [k \in DOMAIN p \cap {"isCleaning", "muState", "cleaningMode"} |-> p[k]]
Agrees(st, reported) ==
  \A k \in DOMAIN ReportedView(reported) : st[k] = ReportedView(reported)[k]

\* C8: once the delayed reconciliation refresh of a command has completed
\* successfully, the local isCleaning, muState and cleaningMode equal what the
\* shadow reports.
C8_ReconciliationCorrects ==
  [][(RefreshComplete("delayed", "accepted")
        /\ last'.outcome \in {"parsed", "skipped"}) =>
       Agrees(state', cloud.reported)]_vars

\* C9 as stated: processing a shadow whose version is the last processed
\* version changes no field of the state.
C9_SameVersionNoChange ==
  [][\A origin \in Origins :
       (RefreshComplete(origin, "accepted")
          /\ getShadowVersion(Shadow(cloud)) = lastShadowVersion) =>
         state' = state]_vars

\* C9 amended: processing a shadow whose version is the last processed
\* version changes no field of the state other than connected, which is true
\* afterwards.
C9_SameVersionOnlyConnects ==
  [][\A origin \in Origins :
       (RefreshComplete(origin, "accepted")
          /\ getShadowVersion(Shadow(cloud)) = lastShadowVersion) =>
         /\ Del(state', "connected") = Del(state, "connected")
         /\ state'.connected]_vars

\* C9 witness: a refresh skipped a shadow of the last processed version and
\* kept a state that differs from what that shadow reports
C9_Witness ==
  /\ last.op = "refresh" /\ last.outcome = "skipped"
  /\ getShadowVersion(Shadow(cloud)) = lastShadowVersion
  /\ ~ParseThrows(cloud.reported)
  /\ ~Agrees(state, cloud.reported)

\* C10 as stated: the optimistic update and its 'stateChange' event happen
\* before the controller awaits the command: when the call is awaiting, the
\* state is updated and the event emitted.
C10_OptimisticBeforeAwait ==
  [][\A op \in Ops, mode \in ModeArgs :
       (CommandCall(op, mode) /\ command'.phase = "awaiting") =>
         (state' = Optimistic(op, mode, state)
            /\ Emitted("stateChange", last'))]_vars

\* C10 amended: the optimistic update and its 'stateChange' event happen
\* when the awaited API call has returned true, not before: calling a command
\* changes and emits nothing, a call that returns false changes and emits
\* nothing, and a call that returns true applies the update, emits
\* 'stateChange' once and (setCleaningMode apart) schedules the delayed
\* refresh.
C10_OptimisticAfterSuccess ==
  [][/\ \A op \in Ops, mode \in ModeArgs :
          CommandCall(op, mode) => (state' = state /\ last'.emits = <<>>)
     /\ \A outcome \in FetchFailures :
          CommandResolve(outcome) =>
            (state' = state /\ last'.emits = <<>> /\ delayed' = delayed)
     /\ CommandResolve("accepted") =>
          /\ state' = Optimistic(command.op, command.mode, state)
          /\ last'.emits = <<"stateChange">>
          /\ delayed' = IF command.op = "setCleaningMode"
                        THEN delayed ELSE delayed + 1]_vars

\* C10 witness: a command whose call returned true has updated the state and
\* emitted 'stateChange', and its delayed refresh is pending
C10_Witness ==
  /\ last.op = "startCleaning" /\ last.outcome = "true"
  /\ last.emits = <<"stateChange">>
  /\ state.isCleaning /\ state.muState = ROBOT_STATES.INIT
  /\ state.cleaningMode = "floor"
  /\ command.phase = "idle" /\ delayed = 1

\* C11: whenever startCleaning, stopCleaning, setCleaningMode or pickup
\* updates the local state optimistically, it also schedules a delayed
\* refresh of the shadow.
C11_OptimisticSchedulesRefresh ==
  [][(CommandResolve("accepted") \/ \E origin \in Origins :
                                      CommandCrosstalk(origin)) =>
       delayed' = delayed + 1]_vars

\* C32: after any sequence of refreshes and commands, the cleaningMode held in
\* the controller's state is a member of the fixed cleaning-mode vocabulary
\* (the keys of CLEANING_MODES).
C32_CleaningModeInVocabulary ==
  state.cleaningMode \in CLEANING_MODES

\* C29: start() performs one refresh immediately, and the periodic refreshes
\* it then schedules are never closer together than the minimum polling
\* interval, whatever polling interval was configured: at most one interval
\* timer is live and its delay is at least 30 s.
C29_MinimumPollingInterval ==
  [][/\ DeviceStart => "start" \in refreshing'
     /\ intervals' > 0 =>
          /\ intervals' = 1
          /\ IntervalDelay(pollingInterval') >= MIN_POLLING_INTERVAL * 1000]_vars

\* C30: after stop() returns no timer created by the controller remains
\* scheduled (no interval, no delayed refresh of a command), and the
\* controller initiates no further refresh (no start() is still on its way
\* to creating the interval), whatever sequence of start(), stop() and
\* command calls preceded.
C30_StopClearsTimers ==
  [][DeviceStop =>
       /\ intervals' = 0
       /\ delayed' = 0
       /\ "start" \notin refreshing']_vars

(***************************************************************************)
(* Claims about AuthenticationManager and the request path                  *)
(***************************************************************************)
\* C5: login is all-or-nothing: when a login() run fails at any step, the
\* stored state is what it was when login() was called.
C5_LoginAllOrNothing ==
  [][\A g \in LoginIds :
       (logins[g].pc # "failed" /\ logins'[g].pc = "failed") =>
         auth' = logins[g].before]_vars

\* request r publishes a shadow get or update in this step
Publishes(r) ==
  /\ requests'[r].pc = "sent"
  /\ requests[r].pc # "sent" \/ requests'[r].stage # requests[r].stage
\* the ensureValidCredentials() call that guards what r publishes at a stage:
\* the update of startRobot itself (stage 3) is guarded by the call startRobot
\* made at its start
Consultation(stage) == IF stage = 3 THEN 1 ELSE stage

\* C35: when several operations concurrently find needsRefresh() true, at
\* most one login run is in flight at a time: login() is not started by an
\* operation that finds needsRefresh() true while another run is in flight.
InFlightLogins(L) ==
  {g \in LoginIds : L[g].pc \notin {"unused", "done", "failed"}}
C35_OneLoginInFlight ==
  [][(LoginCall /\ needsRefresh(auth, clock)) =>
       Cardinality(InFlightLogins(logins')) <= 1]_vars

\* C38: whenever a credential refresh completes while the streaming
\* connection is up, the connection is re-established with the new
\* streaming credentials: a request is never published on a connection
\* built with credentials older than those the session manager holds.
C38_ConnectionFollowsCredentials ==
  [][\A r \in RequestIds :
       Publishes(r) =>
         /\ mqttConnected'
         /\ mqttSignedBy' = auth'.awsCredentials.run]_vars

\* C39: startRobot(mode) reports success, on which startCleaning(mode)
\* records mode as the local cleaningMode, only if the mode change was
\* accepted: when the nested mode-change update is rejected, times out or
\* fails, the call does not return true.
C39_StartNeedsModeAccepted ==
  [][\A r \in RequestIds :
       (requests[r].kind = "startWithMode"
          /\ requests'[r].result = "true") =>
         requests[r].nested = "true"]_vars

RequestFails(r) ==
  \/ /\ LoginReturn(r)
     /\ logins[requests[r].login[requests[r].stage]].pc = "failed"
     /\ requests[r].stage # 2
  \/ EnsureConnected(r, FALSE) /\ ~mqttConnected /\ requests[r].stage # 2
  \/ Response(r, FALSE) /\ requests[r].stage # 2

\* C21: getThingShadow propagates failure as a thrown error: when the session
\* cannot be established (the login it needs fails, before any successful
\* login included, or the client cannot connect) or the shadow fetch fails,
\* the call rejects and returns no value.
C21_GetThingShadowThrows ==
  [][\A r \in RequestIds :
       (requests[r].kind = "get" /\ RequestFails(r)) =>
         requests'[r].result = "thrown"]_vars

\* the login run g returns successfully in this step
Succeeds(g) == logins[g].pc # "done" /\ logins'[g].pc = "done"

\* C23: after a successful login() every field of the stored authentication
\* state (identity token, the backend session fields, streaming credentials)
\* was written by that login run; none is left from another login.
C23_LoginReplacesState ==
  [][\A g \in LoginIds :
       Succeeds(g) =>
         /\ auth'.cognitoToken = g
         /\ auth'.mobToken = g
         /\ auth'.awsCredentials.run = g]_vars

\* C24: when neither a refresh token nor an email and password pair is
\* configured, the configuration error is raised at construction (no manager
\* is built from such a configuration), and no network call is attempted.
C24_ConfigErrorAtConstruction ==
  manager.config = "none" =>
    /\ ~manager.built
    /\ \A g \in LoginIds : ~logins[g].sent
    /\ ~mqttConnected

\* C25: whatever way endpoint discovery fails (a response without an
\* address, or a throw), login() still succeeds once its three
\* authentication steps have succeeded, and the endpoint held before the
\* discovery, like the rest of the stored state, is kept.
C25_DiscoveryFailureSwallowed ==
  [][\A g \in LoginIds, outcome \in Discoveries \ {"address"} :
       discoverIoTEndpoint(g, outcome) =>
         /\ logins'[g].pc = "done"
         /\ auth'.iotEndpoint = auth.iotEndpoint
         /\ auth' = auth]_vars

\* C25 witness: a login has succeeded and stored its credentials although no
\* discovery ever gave an address: the endpoint is still the configured one
C25_Witness ==
  \E g \in LoginIds :
    /\ logins[g].pc = "done"
    /\ auth.awsCredentials.run = g
    /\ auth.iotEndpoint = "default"

\* ensureValidCredentials() of request r consults needsRefresh() in this step
Consults(r) ==
  /\ requests'[r].stage \in {1, 2}
  /\ requests'[r].stage # requests[r].stage

\* C22: needsRefresh() returns true exactly when the streaming credentials
\* are absent or now + refreshBuffer >= expiration, equality included, and
\* false otherwise.
C22_NeedsRefreshAtBoundary ==
  [][\A r \in RequestIds :
       Consults(r) =>
         (requests'[r].needed[requests'[r].stage] <=>
            \/ auth.awsCredentials.run = 0
            \/ clock + CREDENTIAL_REFRESH_BUFFER_MS
                  >= auth.awsCredentials.expiration)]_vars

(***************************************************************************)
(* Claims about the command frame codec                                     *)
(***************************************************************************)
\* the number of bytes of a frame, its i-th byte (from 1), and the sum of its
\* first k bytes
RECURSIVE ByteCount(_)
ByteCount(runs) ==
  IF runs = <<>> THEN 0 ELSE Head(runs).count + ByteCount(Tail(runs))
RECURSIVE ByteAt(_, _)
ByteAt(runs, i) ==
  IF i <= Head(runs).count THEN Head(runs).byte
  ELSE ByteAt(Tail(runs), i - Head(runs).count)
RECURSIVE SumFirst(_, _)
SumFirst(runs, k) ==
  IF k = 0 \/ runs = <<>> THEN 0
  ELSE LET m == IF k < Head(runs).count THEN k ELSE Head(runs).count
       IN m * Head(runs).byte + SumFirst(Tail(runs), k - m)

\* two successive bytes of a frame read little-endian, the first at i
LittleEndian(runs, i) == ByteAt(runs, i) + 256 * ByteAt(runs, i + 1)
\* the number of bytes that precede the length field: preamble, source,
\* destination and opcode
HeaderBytes(commandName) ==
  (Len(sop_preamble) + Len(src) + Len(Commands[commandName].destination)
     + Len(Commands[commandName].opcode)) \div 2
\* the number of bytes of the data argument
PayloadByteCount(data) == HexLength(data) \div 2
\* the latest call built a frame with buildCommand of commandBuilder.ts
BuiltFrame == built.by = "commandBuilder" /\ built.result.defined

\* C26: for every valid command name and every even-length hex payload of 0
\* to 65 535 bytes, the 2-byte length field of the frame buildCommand returns,
\* read little-endian, equals the payload byte count.
C26_LengthFieldLittleEndian ==
  (BuiltFrame /\ PayloadByteCount(built.data) <= 65535) =>
    LittleEndian(Buffer(built.result), HeaderBytes(built.commandName) + 1)
      = PayloadByteCount(built.data)

\* C27: for every frame built for a named command, by either builder, the
\* 2-byte checksum field that ends the frame, read little-endian, equals the
\* sum of all the bytes before it modulo 65 536.
C27_ChecksumIsAdditive ==
  (built.result.defined /\ PayloadByteCount(built.data) <= 65535) =>
    LET bytes == Buffer(built.result)
        n == ByteCount(bytes)
    IN LittleEndian(bytes, n - 1) = SumFirst(bytes, n - 2) % 65536

\* C28: buildCommand returns undefined, never a frame, for a payload longer
\* than 65 535 bytes.
C28_OversizedPayloadRefused ==
  (built.by = "commandBuilder" /\ PayloadByteCount(built.data) > 65535) =>
    ~built.result.defined

(***************************************************************************)
(* Claims about parseShadowState                                            *)
(***************************************************************************)
\* a call of parseShadowState has returned a state for a reported section
Returned ==
  /\ parsed.done /\ ~parsed.threw
  /\ Has(document, "state") /\ Has(document.state, "reported")

\* C12: for every previous state and every payload, the state that
\* parseShadowState returns has 0 <= cycleTimeRemaining <= cycleTime.
C12_RemainingWithinCycleTime ==
  Returned =>
    /\ 0 <= parsed.state.cycleTimeRemaining
    /\ parsed.state.cycleTimeRemaining <= parsed.state.cycleTime

\* the keys of a reported section the parser derives each field from
FieldSources ==
  [connected |-> {"isConnected"},
   muState |-> {"mu_state"},
   pwsState |-> {"systemState", "robotState", "sm_state"},
   isCleaning |-> {"systemState", "robotState", "cycleInfo", "mu_state"},
   cleaningMode |-> {"cycleInfo", "cleaning_mode"},
   cycleTime |-> {"cycleInfo"},
   cycleTimeRemaining |-> {"cycleInfo", "cycle_info"},
   cycleStartTime |-> {"cycleInfo"},
   filterStatus |-> {"filterBagIndication", "filterIndicator", "filter_state"},
   temperature |-> {"inwatTemperature", "temperature"},
   faultCode |-> {"robotError", "pwsError", "faultCodes", "faults"},
   faultDescription |-> {"robotError", "pwsError", "faultCodes", "faults"},
   ledEnabled |-> {"led"}, ledIntensity |-> {"led"},
   weeklyEnabled |-> {"weeklyTimer"},
   delayEnabled |-> {"delayedOperation"}, delayTime |-> {"delayedOperation"},
   isSmartMode |-> {"is_smart"}]
CarriesData(reported, field) == FieldSources[field] \cap DOMAIN reported # {}

\* C13: every field of the state for which the payload carries no data has
\* the same value after parseShadowState as in the previous state.
C13_AbsentFieldsKept ==
  Returned =>
    \A field \in DOMAIN previous :
      ~CarriesData(document.state.reported, field) =>
        /\ Has(parsed.state, field)
        /\ parsed.state[field] = previous[field]

\* a payload of the structured shape only (no legacy key)
Structured(reported) ==
  DOMAIN reported \cap {"mu_state", "sm_state", "cleaning_mode",
                         "filter_state", "temperature", "is_smart",
                         "cycle_info", "faults"} = {}

\* C14: for a structured payload whose power-state string is in the idle
\* list, the parsed isCleaning is false, whatever the robot state, the cycle
\* state and the cycle start timestamp of the same payload say.
C14_IdlePowerStateNotCleaning ==
  (/\ Returned
   /\ Structured(document.state.reported)
   /\ Has(document.state.reported, "systemState")
   /\ Has(document.state.reported.systemState, "pwsState")
   /\ toLowerCase(document.state.reported.systemState.pwsState)
        \in IDLE_PWS_STATES) =>
    parsed.state.isCleaning = FALSE

\* C31: no fault source (robotError, pwsError, the legacy faultCodes object,
\* the legacy hex faults field) ever yields an active fault whose code is one
\* of the reserved sentinels 0, 255 or 65535: the fault code of a returned
\* state is never a sentinel.
C31_NoSentinelFault ==
  (parsed.done /\ ~parsed.threw /\ Has(parsed.state, "faultCode")) =>
    parsed.state.faultCode \notin NO_ERROR_CODES

\* the numeric fullness parseFilterStatus reads: filterBagIndication.state,
\* or filterIndicator.state when there is no filterBagIndication
HasFullness(reported) ==
  IF Has(reported, "filterBagIndication")
  THEN Has(reported.filterBagIndication, "state")
  ELSE Has(reported, "filterIndicator")
         /\ Has(reported.filterIndicator, "state")
Fullness(reported) ==
  IF Has(reported, "filterBagIndication")
  THEN reported.filterBagIndication.state
  ELSE reported.filterIndicator.state

\* C33: a numeric filter fullness strictly above the threshold (80) resolves
\* to needs_cleaning and a fullness at or below the threshold resolves to
\* ok, so the boundary value 80 itself gives ok.
C33_FilterThresholdExclusive ==
  (/\ Returned
   /\ HasFullness(document.state.reported)
   /\ ~Has(document.state.reported, "filter_state")) =>
    parsed.state.filterStatus =
      IF Fullness(document.state.reported) > FILTER_NEEDS_CLEANING_THRESHOLD
      THEN "needs_cleaning" ELSE "ok"

\* a state that held needs_cleaning is resolved to ok by a document whose
\* fullness is exactly the threshold
C33_Witness ==
  /\ Returned
  /\ HasFullness(document.state.reported)
  /\ Fullness(document.state.reported) = FILTER_NEEDS_CLEANING_THRESHOLD
  /\ previous.filterStatus = "needs_cleaning"
  /\ parsed.state.filterStatus = "ok"

\* no source of the document reports an active fault
ReportsNoFault(reported) ==
  /\ ~parseAllFaults(reported).isActive
  /\ Has(reported, "faults") => ~parseFaultsHexString(reported.faults).isActive

\* C40: once a fault has been recorded in the canonical state, a later
\* shadow that reports no active fault from any source clears it: the state
\* returned for that shadow holds no fault code and no fault description.
C40_FaultCleared ==
  (/\ Returned
   /\ Has(previous, "faultCode")
   /\ ReportsNoFault(document.state.reported)) =>
    /\ ~Has(parsed.state, "faultCode")
    /\ ~Has(parsed.state, "faultDescription")

====
